---- MODULE Spec2Model ----
(***************************************************************************)
(* UTXO ledger indexer: block validation, block apply, rollback and        *)
(* balance queries over the five relations blocks, transactions, outputs,  *)
(* inputs and address_balances.                                            *)
(*                                                                         *)
(* Strings are TLA+ strings; a template literal `${a}${b}` is a \o b.      *)
(***************************************************************************)
EXTENDS Bags, FiniteSets, Integers, Sequences, TLC

VARIABLES blocks, transactions, outputs, inputs, address_balances,
          request, response, chain, prior, txn, observed

vars == <<blocks, transactions, outputs, inputs, address_balances,
          request, response, chain, prior, txn, observed>>

(***************************************************************************)
(* Bounds of the model.                                                    *)
(***************************************************************************)
MaxHeight == 3

TxIds == {"t1", "t2", "t3"}

SpentPhraseTxId == "already been spent"

Addresses == {"a1", "a2"}

Indexes == {0, 1}

(***************************************************************************)
(* Strings: decimal formatting, substring search, code-unit ordering.      *)
(***************************************************************************)
Digits == "0123456789"

CodeUnits == " #-.0123456789:abcdefghijklmnopqrstuvwxyz"

RECURSIVE NatToString(_)
NatToString(n) ==
    IF n < 10 THEN SubSeq(Digits, n + 1, n + 1)
    ELSE NatToString(n \div 10) \o SubSeq(Digits, (n % 10) + 1, (n % 10) + 1)

NumberToString(n) == IF n < 0 THEN "-" \o NatToString(0 - n) ELSE NatToString(n)

StringIncludes(s, sub) ==
    \E i \in 1..(Len(s) - Len(sub) + 1) : SubSeq(s, i, i + Len(sub) - 1) = sub

CharCode(c) == CHOOSE i \in 1..Len(CodeUnits) : SubSeq(CodeUnits, i, i) = c

CharAt(s, i) == CharCode(SubSeq(s, i, i))

StringLess(a, b) ==
    \E i \in 1..(Len(a) + 1) :
        /\ \A j \in 1..(i - 1) : j <= Len(b) /\ CharAt(a, j) = CharAt(b, j)
        /\ \/ i = Len(a) + 1 /\ Len(b) >= i
           \/ i <= Len(a) /\ i <= Len(b) /\ CharAt(a, i) < CharAt(b, i)

RECURSIVE InsertSorted(_, _)
InsertSorted(sorted, x) ==
    IF sorted = <<>> THEN <<x>>
    ELSE IF StringLess(x, Head(sorted)) THEN <<x>> \o sorted
    ELSE <<Head(sorted)>> \o InsertSorted(Tail(sorted), x)

ArraySort_Skipped(a) == a

RECURSIVE ArraySort(_)
ArraySort(a) ==
    IF a = <<>> THEN <<>>
    ELSE InsertSorted(ArraySort(SubSeq(a, 1, Len(a) - 1)), a[Len(a)])

RECURSIVE ArrayJoin(_)
ArrayJoin(a) == IF a = <<>> THEN "" ELSE Head(a) \o ArrayJoin(Tail(a))

Sha256Hex(s) == "#" \o s

RECURSIVE SumSeq(_)
SumSeq(s) == IF s = <<>> THEN 0 ELSE Head(s) + SumSeq(Tail(s))

(***************************************************************************)
(* Values of the program: null, thrown errors, the store.                  *)
(***************************************************************************)
Null == [null |-> TRUE]

Some(v) == [null |-> FALSE, value |-> v]

Error(message) == [name |-> "Error", message |-> message]

BlockValidationError(message, statusCode) ==
    [name |-> "BlockValidationError", message |-> message, statusCode |-> statusCode]

DatabaseError(constraint) ==
    [name |-> "error",
     message |-> "duplicate key value violates unique constraint " \o constraint]

ForeignKeyError(constraint) ==
    [name |-> "error",
     message |-> "insert violates foreign key constraint " \o constraint]

Returned(v) == [thrown |-> FALSE, value |-> v]

Thrown(e) == [thrown |-> TRUE, error |-> e]

Done(S) == [thrown |-> FALSE, store |-> S]

Schema ==
    [blocks |-> {}, transactions |-> {}, outputs |-> {}, inputs |-> EmptyBag,
     address_balances |-> << >>]

RECURSIVE SumValues(_)
SumValues(rows) ==
    IF rows = {} THEN 0
    ELSE LET r == CHOOSE x \in rows : TRUE IN r.value + SumValues(rows \ {r})

(***************************************************************************)
(* Queries (db/queries.ts), each over a store S.                           *)
(***************************************************************************)
getCurrentHeight(S) ==
    IF S.blocks = {} THEN Null
    ELSE Some(CHOOSE h \in {b.height : b \in S.blocks} :
                  \A b \in S.blocks : b.height <= h)

SelectOutput(S, txId, index) ==
    {o \in S.outputs : o.transaction_id = txId /\ o.output_index = index}

getOutputValue(S, txId, index) ==
    LET rows == SelectOutput(S, txId, index) IN
    IF rows = {} THEN Returned(Null)
    ELSE LET row == CHOOSE o \in rows : TRUE IN
         IF row.spent
         THEN Thrown(Error("Output " \o txId \o ":" \o NumberToString(index)
                           \o " has already been spent"))
         ELSE Returned(Some(row.value))

getOutputAddress(S, txId, index) ==
    LET rows == SelectOutput(S, txId, index) IN
    IF rows = {} THEN Null ELSE Some((CHOOSE o \in rows : TRUE).address)

insertBlock_HeightNotUnique(S, blockId, height) ==
    IF \E b \in S.blocks : b.id = blockId THEN Thrown(DatabaseError("blocks_pkey"))
    ELSE Done([S EXCEPT !.blocks = @ \cup {[id |-> blockId, height |-> height]}])

insertBlock(S, blockId, height) ==
    IF \E b \in S.blocks : b.id = blockId THEN Thrown(DatabaseError("blocks_pkey"))
    ELSE IF \E b \in S.blocks : b.height = height
    THEN Thrown(DatabaseError("blocks_height_key"))
    ELSE Done([S EXCEPT !.blocks = @ \cup {[id |-> blockId, height |-> height]}])

insertTransaction_IgnoringConflict(S, transactionId, blockId) ==
    IF \E t \in S.transactions : t.id = transactionId THEN Done(S)
    ELSE IF ~ \E b \in S.blocks : b.id = blockId
    THEN Thrown(ForeignKeyError("transactions_block_id_fkey"))
    ELSE Done([S EXCEPT !.transactions =
                   @ \cup {[id |-> transactionId, block_id |-> blockId]}])

insertTransaction(S, transactionId, blockId) ==
    IF \E t \in S.transactions : t.id = transactionId
    THEN Thrown(DatabaseError("transactions_pkey"))
    ELSE IF ~ \E b \in S.blocks : b.id = blockId
    THEN Thrown(ForeignKeyError("transactions_block_id_fkey"))
    ELSE Done([S EXCEPT !.transactions =
                   @ \cup {[id |-> transactionId, block_id |-> blockId]}])

insertOutput(S, transactionId, outputIndex, address, value) ==
    IF SelectOutput(S, transactionId, outputIndex) # {} THEN Done(S)
    ELSE IF ~ \E t \in S.transactions : t.id = transactionId
    THEN Thrown(ForeignKeyError("outputs_transaction_id_fkey"))
    ELSE Done([S EXCEPT !.outputs =
                   @ \cup {[transaction_id |-> transactionId,
                            output_index |-> outputIndex,
                            address |-> address, value |-> value,
                            spent |-> FALSE]}])

insertInput(S, transactionId, spentTransactionId, spentOutputIndex) ==
    IF ~ \E t \in S.transactions : t.id = transactionId
    THEN Thrown(ForeignKeyError("inputs_transaction_id_fkey"))
    ELSE IF SelectOutput(S, spentTransactionId, spentOutputIndex) = {}
    THEN Thrown(ForeignKeyError("inputs_spent_transaction_id_fkey"))
    ELSE Done([S EXCEPT !.inputs =
                   @ (+) SetToBag({[transaction_id |-> transactionId,
                                    spent_transaction_id |-> spentTransactionId,
                                    spent_output_index |-> spentOutputIndex]})])

markOutputAsSpent_AnyIndex(S, transactionId, outputIndex) ==
    Done([S EXCEPT !.outputs =
              {IF o.transaction_id = transactionId
               THEN [o EXCEPT !.spent = TRUE] ELSE o : o \in @}])

markOutputAsSpent(S, transactionId, outputIndex) ==
    Done([S EXCEPT !.outputs =
              {IF o.transaction_id = transactionId /\ o.output_index = outputIndex
               THEN [o EXCEPT !.spent = TRUE] ELSE o : o \in @}])

updateAddressBalance_Overwriting(S, address, delta) ==
    LET ab == S.address_balances IN
    Done([S EXCEPT !.address_balances =
              [a \in DOMAIN ab \cup {address} |-> IF a # address THEN ab[a] ELSE delta]])

updateAddressBalance_InsertOnly(S, address, delta) ==
    LET ab == S.address_balances IN
    Done([S EXCEPT !.address_balances =
              [a \in DOMAIN ab \cup {address} |-> IF a \in DOMAIN ab THEN ab[a] ELSE delta]])

updateAddressBalance(S, address, delta) ==
    LET ab == S.address_balances IN
    Done([S EXCEPT !.address_balances =
              [a \in DOMAIN ab \cup {address} |->
                   IF a # address THEN ab[a]
                   ELSE IF address \in DOMAIN ab THEN ab[a] + delta ELSE delta]])

getAddressBalance(S, address) ==
    IF address \in DOMAIN S.address_balances
    THEN S.address_balances[address]
    ELSE 0

calculateAddressBalance_IncludingSpent(S, address) ==
    SumValues({o \in S.outputs : o.address = address})

calculateAddressBalance(S, address) ==
    SumValues({o \in S.outputs : o.address = address /\ ~ o.spent})

RECURSIVE ProcessInputs(_, _, _)
ProcessInputs(S, transaction, k) ==
    IF k > Len(transaction.inputs) THEN Done(S)
    ELSE
    LET input == transaction.inputs[k]
        outputValue == getOutputValue(S, input.txId, input.index)
        outputAddress == getOutputAddress(S, input.txId, input.index)
    IN
    IF outputValue.thrown THEN outputValue
    ELSE IF outputValue.value = Null
    THEN Thrown(Error("Output " \o input.txId \o ":" \o NumberToString(input.index)
                      \o " does not exist"))
    ELSE IF outputAddress = Null \/ outputAddress.value = ""
    THEN Thrown(Error("Output " \o input.txId \o ":" \o NumberToString(input.index)
                      \o " address not found"))
    ELSE
    LET marked == markOutputAsSpent(S, input.txId, input.index)
        inserted == insertInput(marked.store, transaction.id, input.txId, input.index)
    IN
    IF inserted.thrown THEN inserted
    ELSE ProcessInputs(
             updateAddressBalance(inserted.store, outputAddress.value,
                                  0 - outputValue.value.value).store,
             transaction, k + 1)

RECURSIVE ProcessOutputs(_, _, _)
ProcessOutputs(S, transaction, i) ==
    IF ~ (i < Len(transaction.outputs)) THEN Done(S)
    ELSE
    LET output == transaction.outputs[i + 1]
        inserted == insertOutput(S, transaction.id, i, output.address, output.value)
    IN
    IF inserted.thrown THEN inserted
    ELSE ProcessOutputs(
             updateAddressBalance(inserted.store, output.address, output.value).store,
             transaction, i + 1)

processBlockTransaction(S, transaction, blockId) ==
    LET inserted == insertTransaction(S, transaction.id, blockId) IN
    IF inserted.thrown THEN inserted
    ELSE LET spent == ProcessInputs(inserted.store, transaction, 1) IN
         IF spent.thrown THEN spent
         ELSE ProcessOutputs(spent.store, transaction, 0)

(***************************************************************************)
(* Rollback queries: the cascades of the schema are part of the DELETE.    *)
(***************************************************************************)
deleteBlocksAboveHeight_Inclusive(S, height) ==
    LET goneBlocks == {b.id : b \in {x \in S.blocks : x.height >= height}}
        goneTxs == {t.id : t \in {x \in S.transactions : x.block_id \in goneBlocks}}
        goneOutputs == {o \in S.outputs : o.transaction_id \in goneTxs}
        keptInput(r) ==
            /\ r.transaction_id \notin goneTxs
            /\ ~ \E o \in goneOutputs :
                   /\ o.transaction_id = r.spent_transaction_id
                   /\ o.output_index = r.spent_output_index
    IN
    Done([S EXCEPT
              !.blocks = {b \in @ : b.height < height},
              !.transactions = {t \in @ : t.block_id \notin goneBlocks},
              !.outputs = @ \ goneOutputs,
              !.inputs = [r \in {x \in DOMAIN S.inputs : keptInput(x)} |-> S.inputs[r]]])

deleteBlocksAboveHeight(S, height) ==
    LET goneBlocks == {b.id : b \in {x \in S.blocks : x.height > height}}
        goneTxs == {t.id : t \in {x \in S.transactions : x.block_id \in goneBlocks}}
        goneOutputs == {o \in S.outputs : o.transaction_id \in goneTxs}
        keptInput(r) ==
            /\ r.transaction_id \notin goneTxs
            /\ ~ \E o \in goneOutputs :
                   /\ o.transaction_id = r.spent_transaction_id
                   /\ o.output_index = r.spent_output_index
    IN
    Done([S EXCEPT
              !.blocks = {b \in @ : b.height <= height},
              !.transactions = {t \in @ : t.block_id \notin goneBlocks},
              !.outputs = @ \ goneOutputs,
              !.inputs = [r \in {x \in DOMAIN S.inputs : keptInput(x)} |-> S.inputs[r]]])

resetSpentOutputs_Skipped(S) == Done(S)

resetSpentOutputs_Unconditional(S) ==
    Done([S EXCEPT !.outputs = {[o EXCEPT !.spent = FALSE] : o \in @}])

resetSpentOutputs(S) ==
    LET referenced(o) ==
            \E r \in DOMAIN S.inputs :
                /\ r.spent_transaction_id = o.transaction_id
                /\ r.spent_output_index = o.output_index
    IN
    Done([S EXCEPT !.outputs =
              {IF o.spent /\ ~ referenced(o) THEN [o EXCEPT !.spent = FALSE] ELSE o :
                   o \in @}])

recalculateAllBalances_WithoutDelete(S) ==
    LET unspent == {o \in S.outputs : ~ o.spent}
        grouped == {o.address : o \in unspent}
    IN Done([S EXCEPT !.address_balances =
                 [a \in grouped \cup DOMAIN @ |->
                      IF a \in grouped
                      THEN SumValues({o \in unspent : o.address = a})
                      ELSE @[a]]])

recalculateAllBalances(S) ==
    LET unspent == {o \in S.outputs : ~ o.spent} IN
    Done([S EXCEPT !.address_balances =
              [a \in {o.address : o \in unspent} |->
                   SumValues({o \in unspent : o.address = a})]])

(***************************************************************************)
(* Block service: validateBlock and processBlock.                          *)
(***************************************************************************)
OutputKey(input) == input.txId \o ":" \o NumberToString(input.index)

LookupReferencedOutput(S, input) ==
    LET referencedOutputValue == getOutputValue(S, input.txId, input.index) IN
    IF referencedOutputValue.thrown THEN referencedOutputValue
    ELSE IF referencedOutputValue.value = Null
    THEN Thrown(BlockValidationError(
                    "Input references non-existent output: " \o OutputKey(input), 400))
    ELSE Returned(referencedOutputValue.value.value)

CatchLookupError(error, input) ==
    IF StringIncludes(error.message, "already been spent")
    THEN Thrown(BlockValidationError(
                    "Input references already spent output: " \o OutputKey(input), 400))
    ELSE Thrown(error)

SpentOutputsAdd_Forgotten(spentOutputs, outputKey) == spentOutputs

SpentOutputsAdd(spentOutputs, outputKey) == spentOutputs \cup {outputKey}

RECURSIVE ValidateInputs(_, _, _, _, _)
ValidateInputs(S, transaction, k, spentOutputs, transactionInputValue) ==
    IF k > Len(transaction.inputs)
    THEN [thrown |-> FALSE, spentOutputs |-> spentOutputs,
          transactionInputValue |-> transactionInputValue]
    ELSE
    LET input == transaction.inputs[k]
        outputKey == OutputKey(input)
    IN
    IF outputKey \in spentOutputs
    THEN Thrown(BlockValidationError(
                    "Double-spend detected: output " \o outputKey
                    \o " is referenced multiple times in this block", 400))
    ELSE
    LET looked == LookupReferencedOutput(S, input) IN
    IF looked.thrown THEN CatchLookupError(looked.error, input)
    ELSE ValidateInputs(S, transaction, k + 1, SpentOutputsAdd(spentOutputs, outputKey),
                        transactionInputValue + looked.value)

SumMismatch_OnlyOverspend(transaction, transactionInputValue, transactionOutputValue) ==
    Len(transaction.inputs) > 0 /\ transactionInputValue < transactionOutputValue

SumMismatch(transaction, transactionInputValue, transactionOutputValue) ==
    Len(transaction.inputs) > 0 /\ transactionInputValue # transactionOutputValue

RECURSIVE ValidateTransactions_BlockTotals(_, _, _, _)
ValidateTransactions_BlockTotals(S, block, k, spentOutputs) ==
    IF k > Len(block.transactions)
    THEN LET n == Len(block.transactions)
             blockInputValue ==
                 SumSeq([j \in 1..n |->
                             ValidateInputs(S, block.transactions[j], 1, {}, 0)
                                 .transactionInputValue])
             blockOutputValue ==
                 SumSeq([j \in 1..n |->
                             SumSeq([i \in 1..Len(block.transactions[j].outputs) |->
                                         block.transactions[j].outputs[i].value])])
         IN
         IF (\E j \in 1..n : Len(block.transactions[j].inputs) > 0)
                /\ blockInputValue # blockOutputValue
         THEN Thrown(BlockValidationError(
                         "Input/output sum mismatch for block. Inputs: "
                         \o NumberToString(blockInputValue)
                         \o ", Outputs: " \o NumberToString(blockOutputValue), 400))
         ELSE [thrown |-> FALSE]
    ELSE
    LET walked == ValidateInputs(S, block.transactions[k], 1, spentOutputs, 0) IN
    IF walked.thrown THEN walked
    ELSE ValidateTransactions_BlockTotals(S, block, k + 1, walked.spentOutputs)

RECURSIVE ValidateTransactions(_, _, _, _)
ValidateTransactions(S, block, k, spentOutputs) ==
    IF k > Len(block.transactions) THEN [thrown |-> FALSE]
    ELSE
    LET transaction == block.transactions[k]
        transactionOutputValue ==
            SumSeq([i \in 1..Len(transaction.outputs) |-> transaction.outputs[i].value])
        walked == ValidateInputs(S, transaction, 1, spentOutputs, 0)
    IN
    IF walked.thrown THEN walked
    ELSE IF SumMismatch(transaction, walked.transactionInputValue, transactionOutputValue)
    THEN Thrown(BlockValidationError(
                    "Input/output sum mismatch for transaction " \o transaction.id
                    \o ". Inputs: " \o NumberToString(walked.transactionInputValue)
                    \o ", Outputs: " \o NumberToString(transactionOutputValue), 400))
    ELSE ValidateTransactions(S, block, k + 1, walked.spentOutputs)

ExpectedHeight_FromZero(S) ==
    LET currentHeight == getCurrentHeight(S) IN
    IF currentHeight = Null THEN 0 ELSE currentHeight.value + 1

ExpectedHeight(S) ==
    LET currentHeight == getCurrentHeight(S) IN
    IF currentHeight = Null THEN 1 ELSE currentHeight.value + 1

HeightMismatch_OnlyBelow(block, expectedHeight) == block.height < expectedHeight

HeightMismatch(block, expectedHeight) == block.height # expectedHeight

ExpectedBlockId_Unsorted(block) ==
    LET transactionIds ==
            ArrayJoin([i \in 1..Len(block.transactions) |-> block.transactions[i].id])
        blockIdInput == NumberToString(block.height) \o transactionIds
    IN Sha256Hex(blockIdInput)

ExpectedBlockId(block) ==
    LET transactionIds ==
            ArrayJoin(ArraySort([i \in 1..Len(block.transactions) |->
                                     block.transactions[i].id]))
        blockIdInput == NumberToString(block.height) \o transactionIds
    IN Sha256Hex(blockIdInput)

validateBlock_HashFirst(S, block) ==
    LET expectedHeight == ExpectedHeight(S) IN
    IF HeightMismatch(block, expectedHeight)
    THEN Thrown(BlockValidationError(
                    "Invalid block height. Expected " \o NumberToString(expectedHeight)
                    \o ", got " \o NumberToString(block.height), 400))
    ELSE IF block.id # ExpectedBlockId(block)
    THEN Thrown(BlockValidationError(
                    "Invalid block ID. Expected " \o ExpectedBlockId(block)
                    \o ", got " \o block.id, 400))
    ELSE
    LET economic == ValidateTransactions(S, block, 1, {}) IN
    IF economic.thrown THEN economic ELSE [thrown |-> FALSE]

validateBlock_SeeingBlockOutputs(S, block) ==
    LET expectedHeight == ExpectedHeight(S)
        created == UNION {{[transaction_id |-> block.transactions[k].id,
                            output_index |-> i - 1,
                            address |-> block.transactions[k].outputs[i].address,
                            value |-> block.transactions[k].outputs[i].value,
                            spent |-> FALSE] :
                               i \in 1..Len(block.transactions[k].outputs)} :
                              k \in 1..Len(block.transactions)}
        seen == [S EXCEPT !.outputs =
                     @ \cup {n \in created :
                                SelectOutput(S, n.transaction_id, n.output_index) = {}}]
    IN
    IF HeightMismatch(block, expectedHeight)
    THEN Thrown(BlockValidationError(
                    "Invalid block height. Expected " \o NumberToString(expectedHeight)
                    \o ", got " \o NumberToString(block.height), 400))
    ELSE
    LET economic == ValidateTransactions(seen, block, 1, {}) IN
    IF economic.thrown THEN economic
    ELSE IF block.id # ExpectedBlockId(block)
    THEN Thrown(BlockValidationError(
                    "Invalid block ID. Expected " \o ExpectedBlockId(block)
                    \o ", got " \o block.id, 400))
    ELSE [thrown |-> FALSE]

validateBlock(S, block) ==
    LET expectedHeight == ExpectedHeight(S) IN
    IF HeightMismatch(block, expectedHeight)
    THEN Thrown(BlockValidationError(
                    "Invalid block height. Expected " \o NumberToString(expectedHeight)
                    \o ", got " \o NumberToString(block.height), 400))
    ELSE
    LET economic == ValidateTransactions(S, block, 1, {}) IN
    IF economic.thrown THEN economic
    ELSE IF block.id # ExpectedBlockId(block)
    THEN Thrown(BlockValidationError(
                    "Invalid block ID. Expected " \o ExpectedBlockId(block)
                    \o ", got " \o block.id, 400))
    ELSE [thrown |-> FALSE]

RECURSIVE ProcessTransactions(_, _, _)
ProcessTransactions(S, block, k) ==
    IF k > Len(block.transactions) THEN Done(S)
    ELSE LET applied == processBlockTransaction(S, block.transactions[k], block.id) IN
         IF applied.thrown THEN applied
         ELSE ProcessTransactions(applied.store, block, k + 1)

ApplyBlock(S, block) ==
    LET inserted == insertBlock(S, block.id, block.height) IN
    IF inserted.thrown THEN inserted
    ELSE ProcessTransactions(inserted.store, block, 1)

processBlock_InsertingFirst(S, block) ==
    LET inserted == insertBlock(S, block.id, block.height)
        started == IF inserted.thrown THEN S ELSE inserted.store
        validated == validateBlock(S, block)
    IN
    IF validated.thrown
    THEN [thrown |-> TRUE, error |-> validated.error, store |-> started]
    ELSE LET applied == ApplyBlock(S, block) IN
         IF applied.thrown
         THEN [thrown |-> TRUE, error |-> applied.error, store |-> S]
         ELSE Done(applied.store)

processBlock(S, block) ==
    LET validated == validateBlock(S, block) IN
    IF validated.thrown THEN [thrown |-> TRUE, error |-> validated.error, store |-> S]
    ELSE LET applied == ApplyBlock(S, block) IN
         IF applied.thrown
         THEN [thrown |-> TRUE, error |-> applied.error, store |-> S]
         ELSE Done(applied.store)

(***************************************************************************)
(* Rollback service.                                                       *)
(***************************************************************************)
RollbackError(message) ==
    [name |-> "RollbackError", message |-> message, statusCode |-> 400,
     code |-> "INVALID_TARGET"]

RollbackSteps(S, targetHeight) ==
    recalculateAllBalances(
        resetSpentOutputs(
            deleteBlocksAboveHeight(S, targetHeight).store).store)

rollbackToHeight_AlwaysRebuilding(S, targetHeight) ==
    IF targetHeight < 0
    THEN [thrown |-> TRUE, error |-> RollbackError("Target height must be non-negative"),
          store |-> S]
    ELSE
    LET currentHeight == getCurrentHeight(S) IN
    IF currentHeight = Null THEN Done(S)
    ELSE RollbackSteps(S, targetHeight)

rollbackToHeight(S, targetHeight) ==
    IF targetHeight < 0
    THEN [thrown |-> TRUE, error |-> RollbackError("Target height must be non-negative"),
          store |-> S]
    ELSE
    LET currentHeight == getCurrentHeight(S) IN
    IF currentHeight = Null THEN Done(S)
    ELSE IF targetHeight >= currentHeight.value THEN Done(S)
    ELSE RollbackSteps(S, targetHeight)

(***************************************************************************)
(* Balance service.                                                        *)
(***************************************************************************)
getBalance(S, address) == calculateAddressBalance(S, address)

getCachedBalance(S, address) == getAddressBalance(S, address)

(***************************************************************************)
(* Request validation of the controllers.                                  *)
(***************************************************************************)
ValidationError(message) ==
    [name |-> "ValidationError", message |-> message, statusCode |-> 400,
     code |-> "VALIDATION_ERROR"]

validateRequired(value, fieldName) ==
    IF value = "" THEN Thrown(ValidationError(fieldName \o " is required"))
    ELSE Returned(value)

validateNonNegativeInteger_AnyInteger(value, fieldName) == Returned(value)

validateNonNegativeInteger(value, fieldName) ==
    IF value < 0
    THEN Thrown(ValidationError(fieldName \o " must be a non-negative integer"))
    ELSE Returned(value)

(***************************************************************************)
(* Requests the clients send.                                              *)
(***************************************************************************)
Ref(t, i) == [txId |-> t, index |-> i]

Out(a, v) == [address |-> a, value |-> v]

InputRefs == {Ref(t, i) : t \in TxIds, i \in Indexes} \cup {Ref(SpentPhraseTxId, 0)}

InputLists ==
    {<< >>} \cup {<<r>> : r \in InputRefs}
        \cup {<<r1, r2>> : r1, r2 \in {Ref(t, i) : t \in {"t1", "t2"}, i \in Indexes}}

OutputLists ==
    {<<Out("a1", 2)>>, <<Out("a2", 1)>>, <<Out("a1", 1), Out("a2", 1)>>,
     <<Out("a1", 2), Out("a2", 1)>>, <<Out("a2", 0 - 1)>>}

TransactionUniverse == [id : TxIds, inputs : InputLists, outputs : OutputLists]

PairUniverse ==
    [id : {"t2", "t3"},
     inputs : {<< >>, <<Ref("t1", 0)>>, <<Ref("t1", 1)>>},
     outputs : {<<Out("a2", 1)>>, <<Out("a1", 2)>>}]

TransactionLists ==
    {<< >>} \cup {<<t>> : t \in TransactionUniverse}
        \cup {<<t, u>> : t, u \in PairUniverse}

ProbeLists ==
    {<< >>} \cup {<<t>> : t \in [id : {"t1", "t2"}, inputs : {<< >>, <<Ref("t1", 0)>>},
                                 outputs : {<<Out("a1", 2)>>}]}
        \cup {<<t, u>> : t, u \in [id : {"t2", "t3"}, inputs : {<< >>},
                                   outputs : {<<Out("a2", 1)>>}]}

calculateBlockId(height, transactionIds) ==
    Sha256Hex(NumberToString(height) \o ArrayJoin(ArraySort(transactionIds)))

TransactionIds(txs) == [i \in 1..Len(txs) |-> txs[i].id]

BlockIdChoices(height, txs) ==
    {calculateBlockId(height, TransactionIds(txs)),
     Sha256Hex(NumberToString(height) \o ArrayJoin(TransactionIds(txs))),
     "wrong_hash_value"}

Block(id, height, txs) == [id |-> id, height |-> height, transactions |-> txs]

NextBlocks(height) ==
    {Block(calculateBlockId(height, TransactionIds(txs)), height, txs) :
         txs \in TransactionLists}

ProbeBlocks ==
    UNION {{Block(bid, h, txs) : bid \in BlockIdChoices(h, txs)} :
               h \in 1..MaxHeight, txs \in ProbeLists}

Idle == [op |-> "idle"]

NoTransaction == [active |-> FALSE]

NoObservation == [address |-> ""]

NoResponse == [status |-> "none"]

(***************************************************************************)
(* The state machine.                                                      *)
(***************************************************************************)
Store ==
    [blocks |-> blocks, transactions |-> transactions, outputs |-> outputs,
     inputs |-> inputs, address_balances |-> address_balances]

Commit(S) ==
    /\ blocks' = S.blocks
    /\ transactions' = S.transactions
    /\ outputs' = S.outputs
    /\ inputs' = S.inputs
    /\ address_balances' = S.address_balances

(***************************************************************************)
(* Response helpers and error handler: what the client is sent.            *)
(***************************************************************************)
InstanceOfAppError(error) == error.name \in {"ValidationError", "RollbackError"}

sendResponse(statusCode, data) == [statusCode |-> statusCode, body |-> data]

sendSuccess(data) == sendResponse(200, data)

sendError(error) ==
    IF InstanceOfAppError(error)
    THEN sendResponse(error.statusCode, [error |-> error.message, code |-> error.code])
    ELSE sendResponse(500, [error |-> "Internal server error",
                            code |-> "INTERNAL_SERVER_ERROR"])

errorHandler(error) == sendError(error)

Outcome(result, data) ==
    IF result.thrown
    THEN [status |-> "thrown", error |-> result.error, reply |-> errorHandler(result.error)]
    ELSE [status |-> "ok", reply |-> sendSuccess(data)]

Init ==
    /\ blocks = Schema.blocks
    /\ transactions = Schema.transactions
    /\ outputs = Schema.outputs
    /\ inputs = Schema.inputs
    /\ address_balances = Schema.address_balances
    /\ request = Idle
    /\ response = NoResponse
    /\ chain = << >>
    /\ prior = [store |-> Schema, chain |-> << >>]
    /\ txn = NoTransaction
    /\ observed = NoObservation

Requests ==
    {[op |-> "submit", block |-> b] :
         b \in ProbeBlocks \cup
                (IF Len(chain) < MaxHeight THEN NextBlocks(Len(chain) + 1) ELSE {})}
        \cup {[op |-> "rollback", height |-> h] : h \in (0 - 1)..MaxHeight}
        \cup {[op |-> "balance", address |-> a] : a \in Addresses}

Receive ==
    /\ request = Idle
    /\ \E r \in Requests : request' = r
    /\ response' = NoResponse
    /\ UNCHANGED <<blocks, transactions, outputs, inputs, address_balances, chain,
                   prior, txn, observed>>

SubmitBlock ==
    /\ request.op = "submit"
    /\ response = NoResponse
    /\ LET result == processBlock(Store, request.block) IN
       /\ Commit(result.store)
       /\ response' = Outcome(result, [message |-> "Block processed successfully"])
       /\ chain' = IF result.thrown THEN chain ELSE Append(chain, request.block)
    /\ UNCHANGED <<request, prior, txn, observed>>

Rollback ==
    /\ request.op = "rollback"
    /\ response = NoResponse
    /\ LET targetHeight == validateNonNegativeInteger(request.height, "Height")
           result == IF targetHeight.thrown
                     THEN [thrown |-> TRUE, error |-> targetHeight.error, store |-> Store]
                     ELSE rollbackToHeight(Store, targetHeight.value)
       IN
       /\ Commit(result.store)
       /\ response' =
              Outcome(result,
                      [message |-> "Rollback to height " \o NumberToString(request.height)
                                   \o " completed successfully"])
       /\ chain' = IF result.thrown THEN chain
                   ELSE SelectSeq(chain, LAMBDA b : b.height <= request.height)
    /\ UNCHANGED <<request, prior, txn, observed>>

GetBalance ==
    /\ request.op = "balance"
    /\ response = NoResponse
    /\ LET address == validateRequired(request.address, "Address parameter") IN
       response' = IF address.thrown THEN Outcome(address, << >>)
                   ELSE LET balance == getBalance(Store, address.value) IN
                        [status |-> "ok", balance |-> balance,
                         reply |-> sendSuccess([balance |-> balance])]
    /\ UNCHANGED <<blocks, transactions, outputs, inputs, address_balances,
                   request, chain, prior, txn, observed>>

Reply ==
    /\ response # NoResponse
    /\ request' = Idle
    /\ response' = NoResponse
    /\ prior' = [store |-> Store, chain |-> chain]
    /\ txn' = NoTransaction
    /\ observed' = NoObservation
    /\ UNCHANGED <<blocks, transactions, outputs, inputs, address_balances, chain>>

Next == Receive \/ SubmitBlock \/ Rollback \/ GetBalance \/ Reply

Spec == Init /\ [][Next]_vars

(***************************************************************************)
(* Vocabulary of the properties.                                           *)
(***************************************************************************)
Handled(op) == request.op = op /\ response # NoResponse

Accepted(op) == request.op = op /\ response.status = "ok"

Rejected(op) == request.op = op /\ response.status = "thrown"

RejectedWith(text) ==
    /\ Rejected("submit")
    /\ response.error.name = "BlockValidationError"
    /\ StringIncludes(response.error.message, text)

HeightOf(S) ==
    IF S.blocks = {} THEN 0
    ELSE CHOOSE h \in 1..MaxHeight :
             /\ \E b \in S.blocks : b.height = h
             /\ \A b \in S.blocks : b.height <= h

Referencing(S, o) ==
    {r \in DOMAIN S.inputs :
         /\ r.spent_transaction_id = o.transaction_id
         /\ r.spent_output_index = o.output_index}

RECURSIVE Copies(_, _)
Copies(bag, rows) ==
    IF rows = {} THEN 0
    ELSE LET r == CHOOSE x \in rows : TRUE IN bag[r] + Copies(bag, rows \ {r})

RECURSIVE Replay(_, _)
Replay(S, history) ==
    IF history = << >> THEN S
    ELSE Replay(processBlock(S, Head(history)).store, Tail(history))

View(S) ==
    [blocks |-> S.blocks, transactions |-> S.transactions, outputs |-> S.outputs,
     balances |-> [a \in Addresses |-> getCachedBalance(S, a)]]

(***************************************************************************)
(* C1. Rollback inverse: after accepted submits B1..Bk, a rollback to      *)
(* height j with 0 <= j <= k leaves the state reached by submitting only   *)
(* B1..Bj, compared on the blocks, the transactions, the outputs with      *)
(* their spent flags and the balance read for every address.               *)
(***************************************************************************)
C1_RollbackInverse ==
    (Accepted("rollback") /\ request.height \in 0..Len(prior.chain))
        => View(Store) = View(Replay(Schema, SubSeq(prior.chain, 1, request.height)))

C1_Witness ==
    /\ Accepted("rollback")
    /\ request.height = 2
    /\ Len(prior.chain) = 3
    /\ \E o \in outputs : ~ o.spent /\ [o EXCEPT !.spent = TRUE] \in prior.store.outputs
    /\ \E o \in outputs : o.spent

(***************************************************************************)
(* C2. Balance agreement: for every address the cached balance row (0 when *)
(* the row is absent) equals the sum of the values of the unspent outputs  *)
(* of the address.                                                         *)
(***************************************************************************)
C2_BalanceAgreement ==
    \A a \in Addresses \cup {o.address : o \in outputs} \cup DOMAIN address_balances :
        getCachedBalance(Store, a) = getBalance(Store, a)

C2_Witness ==
    /\ Accepted("rollback")
    /\ prior.store.outputs # outputs
    /\ \E a \in DOMAIN prior.store.address_balances :
           /\ prior.store.address_balances[a] = 0
           /\ getCachedBalance(Store, a) > 0
    /\ \E o \in outputs : o.spent

(***************************************************************************)
(* C3. UTXO consistency: an output is marked spent exactly when some input *)
(* row references it, and no output is referenced by two input rows.       *)
(***************************************************************************)
C3_UtxoConsistency ==
    \A o \in outputs :
        /\ o.spent <=> Referencing(Store, o) # {}
        /\ Copies(inputs, Referencing(Store, o)) <= 1

C3_Witness ==
    /\ Accepted("rollback")
    /\ \E o \in outputs : o.spent
    /\ \E o \in outputs : ~ o.spent /\ [o EXCEPT !.spent = TRUE] \in prior.store.outputs

(***************************************************************************)
(* C4. Linear history: the stored block heights are exactly 1..H for some  *)
(* H >= 0, without gap and without duplicate.                              *)
(***************************************************************************)
C4_LinearHistory ==
    /\ {b.height : b \in blocks} = 1..Cardinality(blocks)
    /\ \A b1, b2 \in blocks : b1.height = b2.height => b1 = b2

C4_Witness ==
    /\ Accepted("submit")
    /\ request.block.height = 3
    /\ Cardinality(blocks) = 3
    /\ Cardinality(prior.store.blocks) = 2

(***************************************************************************)
(* C5. Conservation: every stored transaction that has at least one input  *)
(* row consumes outputs whose values sum to the sum of the values of the   *)
(* outputs it creates; transactions without inputs are exempt.             *)
(***************************************************************************)
InputRowsOf(S, t) == {r \in DOMAIN S.inputs : r.transaction_id = t.id}

RECURSIVE ConsumedValue(_, _)
ConsumedValue(S, rows) ==
    IF rows = {} THEN 0
    ELSE LET r == CHOOSE x \in rows : TRUE
             o == CHOOSE x \in S.outputs :
                      /\ x.transaction_id = r.spent_transaction_id
                      /\ x.output_index = r.spent_output_index
         IN S.inputs[r] * o.value + ConsumedValue(S, rows \ {r})

CreatedValue(S, t) == SumValues({o \in S.outputs : o.transaction_id = t.id})

C5_Conservation ==
    \A t \in transactions :
        InputRowsOf(Store, t) # {}
            => ConsumedValue(Store, InputRowsOf(Store, t)) = CreatedValue(Store, t)

C5_Witness ==
    /\ Accepted("submit")
    /\ \E t \in transactions : Cardinality(InputRowsOf(Store, t)) = 2
    /\ \E t \in transactions :
           InputRowsOf(Store, t) = {} /\ CreatedValue(Store, t) > 0

(***************************************************************************)
(* Vocabulary of the submission properties: the block of the request read  *)
(* against the store as it was when the request arrived.                   *)
(***************************************************************************)
Positions(block) ==
    UNION {{<<k, i>> : i \in 1..Len(block.transactions[k].inputs)} :
               k \in 1..Len(block.transactions)}

InputAt(block, p) == block.transactions[p[1]].inputs[p[2]]

Earlier(p, q) == p[1] < q[1] \/ (p[1] = q[1] /\ p[2] < q[2])

Repeats(block, q) ==
    \E p \in Positions(block) : Earlier(p, q) /\ InputAt(block, p) = InputAt(block, q)

StoredOutputs(S, ref) ==
    {o \in S.outputs : o.transaction_id = ref.txId /\ o.output_index = ref.index}

Spendable(S, ref) == \E o \in StoredOutputs(S, ref) : ~ o.spent

AllSpendable(S, block) ==
    \A p \in Positions(block) : Spendable(S, InputAt(block, p))

NoRepeat(block) == \A q \in Positions(block) : ~ Repeats(block, q)

InputSum(S, tx) ==
    SumSeq([i \in 1..Len(tx.inputs) |->
                (CHOOSE o \in StoredOutputs(S, tx.inputs[i]) : TRUE).value])

OutputSum(tx) == SumSeq([i \in 1..Len(tx.outputs) |-> tx.outputs[i].value])

Unbalanced(S, tx) == Len(tx.inputs) > 0 /\ InputSum(S, tx) # OutputSum(tx)

AtExpectedHeight(S, block) == block.height = HeightOf(S) + 1

(***************************************************************************)
(* C6. Height check: a block is accepted only if its height is H + 1,      *)
(* where H is the current height (0 when nothing is stored); any other     *)
(* height is rejected with an invalid-height error that names the expected *)
(* and the actual height, and nothing is stored.                           *)
(***************************************************************************)
C6_HeightCheck ==
    Handled("submit") =>
        LET H == HeightOf(prior.store)
            height == request.block.height
        IN
        /\ Accepted("submit") => height = H + 1
        /\ height # H + 1 =>
               /\ RejectedWith("Invalid block height")
               /\ StringIncludes(response.error.message,
                                  "Expected " \o NumberToString(H + 1)
                                  \o ", got " \o NumberToString(height))
               /\ Store = prior.store

C6_Witness ==
    /\ RejectedWith("Invalid block height. Expected 3, got 2")
    /\ Cardinality(prior.store.blocks) = 2
    /\ Store = prior.store

(***************************************************************************)
(* C7. The sum check is per transaction: a block at the expected height    *)
(* whose references are distinct and spendable, and in which some          *)
(* transaction with inputs consumes a sum different from the sum it        *)
(* creates, is rejected with the sum-mismatch error of the first such      *)
(* transaction and nothing is stored, also when the totals of the block    *)
(* balance.                                                                *)
(***************************************************************************)
C7_SumCheckPerTransaction ==
    LET block == request.block
        S == prior.store
    IN
    (/\ Handled("submit")
     /\ AtExpectedHeight(S, block)
     /\ NoRepeat(block)
     /\ AllSpendable(S, block)
     /\ \E k \in 1..Len(block.transactions) : Unbalanced(S, block.transactions[k]))
        => LET k == CHOOSE j \in 1..Len(block.transactions) :
                        /\ Unbalanced(S, block.transactions[j])
                        /\ \A l \in 1..(j - 1) : ~ Unbalanced(S, block.transactions[l])
               tx == block.transactions[k]
           IN
           /\ RejectedWith("Input/output sum mismatch for transaction " \o tx.id
                            \o ". Inputs: " \o NumberToString(InputSum(S, tx))
                            \o ", Outputs: " \o NumberToString(OutputSum(tx)))
           /\ Store = S

C7_Witness ==
    LET block == request.block
        S == prior.store
    IN
    /\ RejectedWith("Input/output sum mismatch")
    /\ AtExpectedHeight(S, block)
    /\ Len(block.transactions) = 2
    /\ NoRepeat(block)
    /\ AllSpendable(S, block)
    /\ \A k \in 1..2 : Unbalanced(S, block.transactions[k])
    /\ InputSum(S, block.transactions[1]) + InputSum(S, block.transactions[2])
           = OutputSum(block.transactions[1]) + OutputSum(block.transactions[2])
    /\ Store = S

(***************************************************************************)
(* C8. Double spend within a block: a block in which two inputs, in the    *)
(* same or in different transactions, reference the same output is         *)
(* rejected and nothing is stored; when the block is at the expected       *)
(* height, its references are spendable and the transactions before the    *)
(* repeated reference balance, the error is the double-spend error naming  *)
(* the output as txId:index.                                               *)
(***************************************************************************)
FirstRepeat(block) ==
    CHOOSE q \in Positions(block) :
        /\ Repeats(block, q)
        /\ \A p \in Positions(block) : Repeats(block, p) => (p = q \/ Earlier(q, p))

C8_DoubleSpendInBlock ==
    LET block == request.block
        S == prior.store
    IN
    (Handled("submit") /\ ~ NoRepeat(block))
        => /\ Rejected("submit")
           /\ Store = S
           /\ LET q == FirstRepeat(block)
                   ref == InputAt(block, q)
               IN
               (/\ AtExpectedHeight(S, block)
                /\ AllSpendable(S, block)
                /\ \A k \in 1..(q[1] - 1) : ~ Unbalanced(S, block.transactions[k]))
                   => RejectedWith("Double-spend detected: output " \o ref.txId \o ":"
                                   \o NumberToString(ref.index)
                                   \o " is referenced multiple times in this block")

C8_Witness ==
    LET block == request.block
        S == prior.store
    IN
    /\ RejectedWith("Double-spend detected: output t1:1 ")
    /\ Len(block.transactions) = 2
    /\ block.transactions[1].inputs = block.transactions[2].inputs
    /\ AllSpendable(S, block)
    /\ S.outputs # {}
    /\ Store = S

(***************************************************************************)
(* C9. Missing and spent references are told apart: the already-spent      *)
(* error is reported only for an input whose output is stored and spent,   *)
(* the non-existent error only for an input whose output is not stored,    *)
(* and neither is reported as the other.                                   *)
(***************************************************************************)
ReportedFor(text, ref) ==
    RejectedWith(text \o ref.txId \o ":" \o NumberToString(ref.index))

C9_MissingAndSpentDistinct ==
    LET block == request.block
        S == prior.store
    IN
    Handled("submit") =>
        \A p \in Positions(block) :
            /\ ReportedFor("Input references already spent output: ", InputAt(block, p))
                   => \E o \in StoredOutputs(S, InputAt(block, p)) : o.spent
            /\ ReportedFor("Input references non-existent output: ", InputAt(block, p))
                   => StoredOutputs(S, InputAt(block, p)) = {}

(***************************************************************************)
(* C10. Hash integrity: the id of every stored block is the hash of its    *)
(* height followed by the ids of its transactions in sorted order; a block *)
(* submitted with another id is rejected and nothing is stored, with the   *)
(* invalid-block-id error when the block is at the expected height and     *)
(* passes the reference and sum checks.                                    *)
(***************************************************************************)
SortedIds(ids) ==
    CHOOSE s \in [1..Cardinality(ids) -> ids] :
        \A i, j \in 1..Cardinality(ids) : i < j => StringLess(s[i], s[j])

RECURSIVE Concat(_)
Concat(s) == IF s = << >> THEN "" ELSE Head(s) \o Concat(Tail(s))

HashOf(height, ids) == Sha256Hex(NumberToString(height) \o Concat(SortedIds(ids)))

C10_HashIntegrity ==
    /\ \A b \in blocks :
           b.id = HashOf(b.height, {t.id : t \in {x \in transactions : x.block_id = b.id}})
    /\ LET block == request.block
            S == prior.store
        IN
        (/\ Handled("submit")
         /\ block.id # calculateBlockId(block.height, TransactionIds(block.transactions)))
            => /\ Rejected("submit")
               /\ Store = S
               /\ (/\ AtExpectedHeight(S, block)
                    /\ NoRepeat(block)
                    /\ AllSpendable(S, block)
                    /\ \A k \in 1..Len(block.transactions) :
                           ~ Unbalanced(S, block.transactions[k]))
                       => RejectedWith("Invalid block ID. Expected "
                                       \o calculateBlockId(block.height,
                                               TransactionIds(block.transactions))
                                       \o ", got " \o block.id)

C10_Witness ==
    LET block == request.block IN
    /\ RejectedWith("Invalid block ID")
    /\ Len(block.transactions) = 2
    /\ block.id = Sha256Hex(NumberToString(block.height)
                                \o Concat(TransactionIds(block.transactions)))
    /\ \E b \in blocks : \E t, u \in transactions :
           t # u /\ t.block_id = b.id /\ u.block_id = b.id
    /\ Store = prior.store

(***************************************************************************)
(* The block id as a function of its inputs: a height, a list of           *)
(* transaction ids and a reordering of the list are drawn, and the id is   *)
(* computed for both orders by the test helper and by the validator.       *)
(***************************************************************************)
HashIds == TxIds \cup {"t10"}

HashIdLists ==
    {<< >>} \cup {<<a>> : a \in HashIds} \cup {<<a, b>> : a, b \in HashIds}
        \cup {<<a, b, c>> : a, b, c \in HashIds}

Reorderings(s) ==
    {[i \in 1..Len(s) |-> s[p[i]]] :
         p \in {f \in [1..Len(s) -> 1..Len(s)] :
                    \A i, j \in 1..Len(s) : f[i] = f[j] => i = j}}

BlockOfIds(height, ids) ==
    Block("", height, [i \in 1..Len(ids) |->
                           [id |-> ids[i], inputs |-> << >>, outputs |-> << >>]])

InitBlockId ==
    /\ blocks = Schema.blocks
    /\ transactions = Schema.transactions
    /\ outputs = Schema.outputs
    /\ inputs = Schema.inputs
    /\ address_balances = Schema.address_balances
    /\ \E h \in 1..MaxHeight, ids \in HashIdLists :
           \E reordered \in Reorderings(ids) :
               request = [op |-> "blockId", height |-> h, transactionIds |-> ids,
                          reordered |-> reordered]
    /\ response = NoResponse
    /\ chain = << >>
    /\ prior = [store |-> Schema, chain |-> << >>]
    /\ txn = NoTransaction
    /\ observed = NoObservation

ComputeBlockId ==
    /\ request.op = "blockId"
    /\ response = NoResponse
    /\ response' =
           [status |-> "ok",
            id |-> calculateBlockId(request.height, request.transactionIds),
            reorderedId |-> calculateBlockId(request.height, request.reordered),
            expectedBlockId |->
                ExpectedBlockId(BlockOfIds(request.height, request.transactionIds)),
            reorderedExpectedBlockId |->
                ExpectedBlockId(BlockOfIds(request.height, request.reordered))]
    /\ UNCHANGED <<blocks, transactions, outputs, inputs, address_balances,
                   request, chain, prior, txn, observed>>

NextBlockId == ComputeBlockId

SpecBlockId == InitBlockId /\ [][NextBlockId]_vars

(***************************************************************************)
(* C11. Block-id permutation invariance: for a height and a list of        *)
(* transaction ids the computed block id is the same for every             *)
(* permutation of the list, so the id the hash check of the validator      *)
(* expects does not depend on the order of the transactions of the block.  *)
(***************************************************************************)
C11_BlockIdPermutationInvariance ==
    (request.op = "blockId" /\ response # NoResponse)
        => /\ response.reorderedId = response.id
           /\ response.reorderedExpectedBlockId = response.expectedBlockId
           /\ response.expectedBlockId = response.id

C11_Witness ==
    /\ request.op = "blockId"
    /\ response # NoResponse
    /\ request.transactionIds = <<"t2", "t10", "t1">>
    /\ request.reordered = <<"t10", "t1", "t2">>
    /\ response.id = Sha256Hex("3t1t10t2")

(***************************************************************************)
(* C12. A submit that fails a check of the validator (height, double       *)
(* spend, non-existent output, already spent, sum mismatch, block id)      *)
(* leaves the blocks, the transactions, the outputs with their spent       *)
(* flags, the inputs and the address balances as they were.                *)
(***************************************************************************)
C12_ValidatorFailureKeepsStore ==
    (Rejected("submit") /\ response.error.name = "BlockValidationError")
        => /\ blocks = prior.store.blocks
           /\ transactions = prior.store.transactions
           /\ outputs = prior.store.outputs
           /\ inputs = prior.store.inputs
           /\ address_balances = prior.store.address_balances

C12_Witness ==
    /\ RejectedWith("Input references already spent output: t1:0")
    /\ AtExpectedHeight(prior.store, request.block)
    /\ request.block.id = ExpectedBlockId(request.block)
    /\ inputs # EmptyBag
    /\ Cardinality(blocks) = 2
    /\ Store = prior.store

(***************************************************************************)
(* C14. Idempotent rollback: a rollback to height j succeeds and changes   *)
(* no relation, the rows of the address balances included, when no block   *)
(* is stored or when j is at least the current height; a second rollback   *)
(* to j after a first one leaves the state of the first.                   *)
(***************************************************************************)
C14_IdempotentRollback ==
    /\ (/\ Handled("rollback")
         /\ request.height >= 0
         /\ (prior.store.blocks = {} \/ request.height >= HeightOf(prior.store)))
            => Accepted("rollback") /\ Store = prior.store
    /\ Accepted("rollback") => rollbackToHeight(Store, request.height) = Done(Store)

C14_Witness ==
    /\ Accepted("rollback")
    /\ request.height = HeightOf(prior.store)
    /\ request.height = 2
    /\ \E a \in DOMAIN address_balances : address_balances[a] = 0
    /\ Store = prior.store

(***************************************************************************)
(* C17. Acceptance after rollback: after a rollback to j below the current *)
(* height, the current height is j and a submitted block is accepted only  *)
(* if its height is j + 1; after a rollback to 0 no block, transaction,    *)
(* output, input or non-zero balance remains and only height 1 is          *)
(* accepted.                                                               *)
(***************************************************************************)
C17_AcceptanceAfterRollback ==
    (Accepted("rollback") /\ request.height < HeightOf(prior.store))
        => LET j == request.height IN
           /\ HeightOf(Store) = j
           /\ getCurrentHeight(Store) = IF j = 0 THEN Null ELSE Some(j)
           /\ \A b \in ProbeBlocks : ~ processBlock(Store, b).thrown => b.height = j + 1
           /\ \E b \in ProbeBlocks : b.height = j + 1 /\ ~ processBlock(Store, b).thrown
           /\ j = 0 => /\ blocks = {}
                        /\ transactions = {}
                        /\ outputs = {}
                        /\ inputs = EmptyBag
                        /\ \A a \in Addresses \cup DOMAIN address_balances :
                               getCachedBalance(Store, a) = 0

C17_Witness ==
    /\ Accepted("rollback")
    /\ request.height = 0
    /\ Cardinality(prior.store.blocks) = 3
    /\ prior.store.inputs # EmptyBag
    /\ \E a \in Addresses : getCachedBalance(prior.store, a) > 0
    /\ blocks = {}

(***************************************************************************)
(* C18. Balance query: the balance endpoint answers with success the sum   *)
(* of the values of the unspent outputs of the address in the committed    *)
(* state, which is what the blocks on the chain paid to the address minus  *)
(* what they spent from it, answers 0 for an address without unspent       *)
(* output, and changes no relation.                                        *)
(***************************************************************************)
RECURSIVE ChainTransactions(_)
ChainTransactions(history) ==
    IF history = << >> THEN << >>
    ELSE Head(history).transactions \o ChainTransactions(Tail(history))

PayingTransaction(txs, ref) ==
    CHOOSE k \in 1..Len(txs) : txs[k].id = ref.txId

Received(txs, a) ==
    SumSeq([k \in 1..Len(txs) |->
                SumSeq([i \in 1..Len(txs[k].outputs) |->
                            IF txs[k].outputs[i].address = a
                            THEN txs[k].outputs[i].value ELSE 0])])

SpentFrom(txs, a) ==
    SumSeq([k \in 1..Len(txs) |->
                SumSeq([i \in 1..Len(txs[k].inputs) |->
                            LET ref == txs[k].inputs[i]
                                paid == txs[PayingTransaction(txs, ref)].outputs[ref.index + 1]
                            IN IF paid.address = a THEN paid.value ELSE 0])])

LedgerBalance(history, a) ==
    Received(ChainTransactions(history), a) - SpentFrom(ChainTransactions(history), a)

C18_BalanceQuery ==
    Handled("balance") =>
        LET a == request.address IN
        /\ response.status = "ok"
        /\ response.reply.statusCode = 200
        /\ response.reply.body = [balance |-> LedgerBalance(chain, a)]
        /\ (~ \E o \in outputs : o.address = a /\ ~ o.spent)
               => response.reply.body.balance = 0
        /\ Store = prior.store

C18_Witness ==
    /\ Handled("balance")
    /\ response.reply = [statusCode |-> 200, body |-> [balance |-> 0]]
    /\ \E o \in outputs : o.address = request.address /\ o.spent /\ o.value > 0
    /\ \E o \in outputs : o.address # request.address /\ ~ o.spent

C20_NegativeRollbackTarget ==
    (Handled("rollback") /\ request.height < 0)
        => /\ Rejected("rollback")
           /\ response.reply.statusCode = 400
           /\ StringIncludes(response.reply.body.error, "non-negative integer")
           /\ Store = prior.store
           /\ LET result == rollbackToHeight(prior.store, request.height) IN
               /\ result.thrown
               /\ result.error.name = "RollbackError"
               /\ result.error.code = "INVALID_TARGET"
               /\ result.store = prior.store
               /\ rollbackToHeight(Schema, request.height).error = result.error

C20_Witness ==
    /\ Rejected("rollback")
    /\ request.height = 0 - 1
    /\ response.reply.body.error = "Height must be a non-negative integer"
    /\ Cardinality(blocks) = 2
    /\ Store = prior.store

(***************************************************************************)
(* One writer inside its database transaction, statement by statement,     *)
(* with the balance queries of other connections in between.  The tables   *)
(* hold the committed rows; txn.store is what the writer's connection      *)
(* sees between BEGIN and COMMIT.                                          *)
(***************************************************************************)
WriterTransaction(id, ins, outs) == [id |-> id, inputs |-> ins, outputs |-> outs]

WriterLists ==
    {<< >>,
     <<WriterTransaction("t1", << >>, <<Out("a1", 2), Out("a2", 1)>>)>>,
     <<WriterTransaction("t2", <<Ref("t1", 0)>>, <<Out("a1", 1), Out("a2", 1)>>)>>,
     <<WriterTransaction("t2", <<Ref("t1", 0)>>, <<Out("a1", 1), Out("a2", 1)>>),
       WriterTransaction("t3", <<Ref("t1", 1)>>, <<Out("a2", 1)>>)>>,
     <<WriterTransaction("t3", <<Ref("t2", 0)>>, <<Out("a2", 1)>>)>>,
     <<WriterTransaction("t2", << >>, <<Out("a2", 1)>>),
       WriterTransaction("t2", << >>, <<Out("a1", 2)>>)>>}

WriterBlocks(height) ==
    {Block(calculateBlockId(height, TransactionIds(txs)), height, txs) :
         txs \in WriterLists}

WriterRequests ==
    {[op |-> "submit", block |-> b] :
         b \in (IF Len(chain) < MaxHeight THEN WriterBlocks(Len(chain) + 1) ELSE {})}
        \cup {[op |-> "rollback", height |-> h] : h \in (0 - 1)..MaxHeight}

Statement(stmt, k) == [stmt |-> stmt, k |-> k]

RECURSIVE TransactionStatements(_, _)
TransactionStatements(block, k) ==
    IF k > Len(block.transactions) THEN << >>
    ELSE <<Statement("processInputs", k), Statement("processOutputs", k)>>
             \o TransactionStatements(block, k + 1)

BlockStatements(block) ==
    <<Statement("insertBlock", 0)>> \o TransactionStatements(block, 1)

RollbackStatements ==
    <<Statement("deleteBlocksAboveHeight", 0), Statement("resetSpentOutputs", 0),
      Statement("deleteAddressBalances", 0), Statement("insertAddressBalances", 0)>>

deleteAddressBalances(S) ==
    Done([S EXCEPT !.address_balances = [a \in {} |-> 0]])

insertAddressBalances(S) ==
    LET unspent == {o \in S.outputs : ~ o.spent}
        grouped == {o.address : o \in unspent}
    IN Done([S EXCEPT !.address_balances =
                 [a \in grouped \cup DOMAIN @ |->
                      IF a \in grouped
                      THEN SumValues({o \in unspent : o.address = a})
                      ELSE @[a]]])

ExecuteStatement(S, req, st) ==
    CASE st.stmt = "insertBlock" -> insertBlock(S, req.block.id, req.block.height)
      [] st.stmt = "processInputs" ->
             LET transaction == req.block.transactions[st.k]
                 inserted == insertTransaction(S, transaction.id, req.block.id)
             IN IF inserted.thrown THEN inserted
                ELSE ProcessInputs(inserted.store, transaction, 1)
      [] st.stmt = "processOutputs" ->
             ProcessOutputs(S, req.block.transactions[st.k], 0)
      [] st.stmt = "deleteBlocksAboveHeight" -> deleteBlocksAboveHeight(S, req.height)
      [] st.stmt = "resetSpentOutputs" -> resetSpentOutputs(S)
      [] st.stmt = "deleteAddressBalances" -> deleteAddressBalances(S)
      [] st.stmt = "insertAddressBalances" -> insertAddressBalances(S)

BeginTransaction(S, statements) ==
    [active |-> TRUE, store |-> S, statements |-> statements, checkedOut |-> 1]

ClientRelease_OnlyAfterCommit(checkedOut, outcome) ==
    IF outcome = "COMMIT" THEN checkedOut - 1 ELSE checkedOut

ClientRelease(checkedOut, outcome) == checkedOut - 1

EndTransaction(transaction, outcome, rollbackStatement) ==
    [active |-> FALSE, store |-> transaction.store, outcome |-> outcome,
     rollbackStatement |-> rollbackStatement,
     checkedOut |-> ClientRelease(transaction.checkedOut, outcome)]

RollbackTransaction_Missing(committed, working) == working

RollbackTransaction(committed, working) == committed

VisibleDuringProcessBlock_Uncommitted(committed, working) == working

VisibleDuringProcessBlock(committed, working) == committed

VisibleDuringRollback_Uncommitted(committed, working) == working

VisibleDuringRollback(committed, working) == committed

SuccessData(req) ==
    IF req.op = "submit" THEN [message |-> "Block processed successfully"]
    ELSE [message |-> "Rollback to height " \o NumberToString(req.height)
                      \o " completed successfully"]

ReceiveWrite ==
    /\ request = Idle
    /\ \E r \in WriterRequests : request' = r
    /\ response' = NoResponse
    /\ UNCHANGED <<blocks, transactions, outputs, inputs, address_balances, chain,
                   prior, txn, observed>>

ProcessBlockBegin ==
    /\ request.op = "submit"
    /\ response = NoResponse
    /\ txn = NoTransaction
    /\ LET validated == validateBlock(Store, request.block) IN
       IF validated.thrown
       THEN response' = Outcome(validated, << >>) /\ txn' = txn
       ELSE /\ response' = response
            /\ txn' = BeginTransaction(Store, BlockStatements(request.block))
    /\ UNCHANGED <<blocks, transactions, outputs, inputs, address_balances,
                   request, chain, prior, observed>>

RollbackBegin ==
    /\ request.op = "rollback"
    /\ response = NoResponse
    /\ txn = NoTransaction
    /\ LET targetHeight == validateNonNegativeInteger(request.height, "Height")
           currentHeight == getCurrentHeight(Store)
       IN
       IF targetHeight.thrown
       THEN response' = Outcome(targetHeight, << >>) /\ txn' = txn
       ELSE IF currentHeight = Null \/ targetHeight.value >= currentHeight.value
       THEN response' = Outcome(Done(Store), SuccessData(request)) /\ txn' = txn
       ELSE /\ response' = response
            /\ txn' = BeginTransaction(Store, RollbackStatements)
    /\ UNCHANGED <<blocks, transactions, outputs, inputs, address_balances,
                   request, chain, prior, observed>>

ExecuteNextStatement ==
    /\ txn.active
    /\ txn.statements # << >>
    /\ LET result == ExecuteStatement(txn.store, request, Head(txn.statements)) IN
       IF result.thrown
       THEN /\ Commit(RollbackTransaction(Store, txn.store))
            /\ txn' = EndTransaction(txn, "ROLLBACK", "done")
            /\ response' = Outcome(result, << >>)
       ELSE /\ UNCHANGED <<blocks, transactions, outputs, inputs, address_balances>>
            /\ txn' = [txn EXCEPT !.store = result.store, !.statements = Tail(@)]
            /\ response' = response
    /\ UNCHANGED <<request, chain, prior, observed>>

StoreFailure ==
    /\ txn.active
    /\ Commit(RollbackTransaction(Store, txn.store))
    /\ \E rollbackStatement \in {"done", "failed"} :
           txn' = EndTransaction(txn, "ROLLBACK", rollbackStatement)
    /\ response' = Outcome(Thrown(DatabaseError("connection")), << >>)
    /\ UNCHANGED <<request, chain, prior, observed>>

CommitTransaction ==
    /\ txn.active
    /\ txn.statements = << >>
    /\ Commit(txn.store)
    /\ txn' = EndTransaction(txn, "COMMIT", "none")
    /\ response' = Outcome(Done(txn.store), SuccessData(request))
    /\ chain' = IF request.op = "submit" THEN Append(chain, request.block)
                ELSE SelectSeq(chain, LAMBDA b : b.height <= request.height)
    /\ UNCHANGED <<request, prior, observed>>

ConcurrentBalance ==
    /\ txn.active
    /\ \E a \in Addresses :
           LET visible == IF request.op = "submit"
                          THEN VisibleDuringProcessBlock(Store, txn.store)
                          ELSE VisibleDuringRollback(Store, txn.store)
           IN observed' = [address |-> a, balance |-> getBalance(visible, a),
                           cached |-> getCachedBalance(visible, a)]
    /\ UNCHANGED <<blocks, transactions, outputs, inputs, address_balances,
                   request, response, chain, prior, txn>>

NextConcurrent ==
    \/ ReceiveWrite
    \/ ProcessBlockBegin
    \/ RollbackBegin
    \/ ExecuteNextStatement
    \/ StoreFailure
    \/ CommitTransaction
    \/ ConcurrentBalance
    \/ Reply

SpecConcurrent == Init /\ [][NextConcurrent]_vars

(***************************************************************************)
(* C13: when a store operation fails while a block is being applied or a   *)
(* rollback is being carried out, the writer's transaction is rolled back, *)
(* the error reaches the caller, and every relation is as it was before    *)
(* the operation began.                                                    *)
(***************************************************************************)
C13_StoreFailureRollsBack ==
    ("outcome" \in DOMAIN txn /\ txn.outcome = "ROLLBACK") =>
        /\ Store = prior.store
        /\ response # NoResponse
        /\ response.status = "thrown"
        /\ response.reply.statusCode = 500

C13_Witness ==
    /\ request.op = "rollback"
    /\ "outcome" \in DOMAIN txn
    /\ txn.outcome = "ROLLBACK"
    /\ txn.store.blocks # blocks
    /\ response.status = "thrown"
    /\ Store = prior.store

(***************************************************************************)
(* C15: a balance query that runs while a rollback to height j is in       *)
(* progress reads either the balance before the rollback or the balance of *)
(* the chain cut at j, never a value of the writer's intermediate states.  *)
(***************************************************************************)
C15_RollbackAtomicity ==
    (request.op = "rollback" /\ observed # NoObservation) =>
        \E history \in {prior.chain, SubSeq(prior.chain, 1, request.height)} :
            /\ observed.balance = LedgerBalance(history, observed.address)
            /\ observed.cached = LedgerBalance(history, observed.address)

C15_Witness ==
    /\ request.op = "rollback"
    /\ txn.active
    /\ observed # NoObservation
    /\ txn.store.blocks # blocks
    /\ DOMAIN txn.store.address_balances = {}
    /\ getCachedBalance(txn.store, observed.address) \notin
           {LedgerBalance(prior.chain, observed.address),
            LedgerBalance(SubSeq(prior.chain, 1, request.height), observed.address)}
    /\ observed.balance = LedgerBalance(prior.chain, observed.address)
    /\ observed.cached = LedgerBalance(prior.chain, observed.address)

(***************************************************************************)
(* C16: a balance query that runs while a block is being applied reads     *)
(* either the balance before the block or the balance after the whole      *)
(* block, and an accepted block leaves exactly the store of the complete   *)
(* application: none of its effects or all of them.                        *)
(***************************************************************************)
C16_SubmitAtomicity ==
    /\ (request.op = "submit" /\ observed # NoObservation) =>
           \E history \in {prior.chain, Append(prior.chain, request.block)} :
               /\ observed.balance = LedgerBalance(history, observed.address)
               /\ observed.cached = LedgerBalance(history, observed.address)
    /\ (request.op = "submit" /\ response # NoResponse) =>
           Store \in {prior.store, processBlock(prior.store, request.block).store}

C16_Witness ==
    /\ request.op = "submit"
    /\ txn.active
    /\ observed # NoObservation
    /\ getBalance(txn.store, observed.address) \notin
           {LedgerBalance(prior.chain, observed.address),
            LedgerBalance(Append(prior.chain, request.block), observed.address)}
    /\ observed.balance = LedgerBalance(prior.chain, observed.address)

(***************************************************************************)
(* The rollback controller on the raw query string: getQueryParam,         *)
(* getIntQueryParam, getRequiredIntQueryParam and JavaScript's parseInt.   *)
(* A query parameter is Null when the URL does not carry it.               *)
(***************************************************************************)
NaN == [nan |-> TRUE]

Number(n) == [nan |-> FALSE, value |-> n]

IsDigit(c) == \E i \in 1..Len(Digits) : SubSeq(Digits, i, i) = c

DigitValue(c) == (CHOOSE i \in 1..Len(Digits) : SubSeq(Digits, i, i) = c) - 1

RECURSIVE TrimStart(_)
TrimStart(s) ==
    IF Len(s) > 0 /\ SubSeq(s, 1, 1) = " " THEN TrimStart(SubSeq(s, 2, Len(s))) ELSE s

RECURSIVE DigitPrefix(_)
DigitPrefix(s) ==
    IF Len(s) > 0 /\ IsDigit(SubSeq(s, 1, 1))
    THEN SubSeq(s, 1, 1) \o DigitPrefix(SubSeq(s, 2, Len(s)))
    ELSE ""

RECURSIVE DecimalValue(_)
DecimalValue(digits) ==
    IF Len(digits) = 0 THEN 0
    ELSE 10 * DecimalValue(SubSeq(digits, 1, Len(digits) - 1))
             + DigitValue(SubSeq(digits, Len(digits), Len(digits)))

parseInt(string) ==
    LET trimmed == TrimStart(string)
        signed == Len(trimmed) > 0 /\ SubSeq(trimmed, 1, 1) \in {"-", "+"}
        negative == signed /\ SubSeq(trimmed, 1, 1) = "-"
        digits == DigitPrefix(IF signed THEN SubSeq(trimmed, 2, Len(trimmed)) ELSE trimmed)
    IN IF Len(digits) = 0 THEN NaN
       ELSE Number(IF negative THEN 0 - DecimalValue(digits) ELSE DecimalValue(digits))

getQueryParam(req, paramName) ==
    IF req.query[paramName] # Null /\ Len(req.query[paramName].value) > 0
    THEN Some(req.query[paramName].value)
    ELSE Null

getIntQueryParam(req, paramName) ==
    LET value == getQueryParam(req, paramName) IN
    IF value = Null THEN Null
    ELSE LET parsed == parseInt(value.value) IN
         IF parsed.nan THEN Null ELSE Some(parsed.value)

getRequiredIntQueryParam(req, paramName, errorMessage) ==
    LET value == getIntQueryParam(req, paramName) IN
    IF value = Null THEN Thrown(ValidationError(errorMessage))
    ELSE Returned(value.value)

HeightParams ==
    {Null} \cup {Some(v) : v \in {"", "abc", "-1", "0", "1", "2", "3", "1.5", "2abc", " 1", "-", "10"}}

QueryRequests ==
    {[op |-> "submit", block |-> b] :
         b \in (IF Len(chain) < MaxHeight THEN WriterBlocks(Len(chain) + 1) ELSE {})}
        \cup {[op |-> "rollback", query |-> [height |-> h]] : h \in HeightParams}

ReceiveQuery ==
    /\ request = Idle
    /\ \E r \in QueryRequests : request' = r
    /\ response' = NoResponse
    /\ UNCHANGED <<blocks, transactions, outputs, inputs, address_balances, chain,
                   prior, txn, observed>>

RollbackQuery ==
    /\ request.op = "rollback"
    /\ response = NoResponse
    /\ LET heightParam == getRequiredIntQueryParam(request, "height",
                                                   "Height query parameter is required")
           targetHeight == IF heightParam.thrown THEN heightParam
                           ELSE validateNonNegativeInteger(heightParam.value, "Height")
           result == IF targetHeight.thrown
                     THEN [thrown |-> TRUE, error |-> targetHeight.error, store |-> Store]
                     ELSE rollbackToHeight(Store, targetHeight.value)
       IN
       /\ Commit(result.store)
       /\ response' =
              Outcome(result,
                      [message |-> "Rollback to height "
                                   \o NumberToString(IF targetHeight.thrown THEN 0
                                                      ELSE targetHeight.value)
                                   \o " completed successfully"])
              @@ [rollbackToHeight |-> IF targetHeight.thrown THEN Null
                                       ELSE Some(targetHeight.value)]
       /\ chain' = IF result.thrown THEN chain
                   ELSE SelectSeq(chain, LAMBDA b : b.height <= targetHeight.value)
    /\ UNCHANGED <<request, prior, txn, observed>>

NextQuery == ReceiveQuery \/ SubmitBlock \/ RollbackQuery \/ Reply

SpecQuery == Init /\ [][NextQuery]_vars

(***************************************************************************)
(* C21: POST /rollback answers 400 and performs no rollback when the       *)
(* height parameter is missing (error contains 'Height query parameter is  *)
(* required') and when it is not an integer (error contains 'non-negative  *)
(* integer'); only a non-negative integer height reaches rollbackToHeight. *)
(***************************************************************************)
MissingParam(param) == param = Null \/ param.value = ""

IntegerLiteral(string) ==
    LET unsigned == IF Len(string) > 0 /\ SubSeq(string, 1, 1) = "-"
                    THEN SubSeq(string, 2, Len(string)) ELSE string
    IN Len(unsigned) > 0 /\ DigitPrefix(unsigned) = unsigned

AnsweredBadRequest(text) ==
    /\ response.reply.statusCode = 400
    /\ StringIncludes(response.reply.body.error, text)
    /\ response.rollbackToHeight = Null
    /\ Store = prior.store

C21_RollbackRequestValidation ==
    (request.op = "rollback" /\ response # NoResponse) =>
        LET param == request.query.height IN
        /\ MissingParam(param) => AnsweredBadRequest("Height query parameter is required")
        /\ (~ MissingParam(param) /\ ~ IntegerLiteral(param.value))
               => AnsweredBadRequest("non-negative integer")
        /\ response.rollbackToHeight # Null =>
               /\ IntegerLiteral(param.value)
               /\ response.rollbackToHeight.value >= 0
               /\ NumberToString(response.rollbackToHeight.value) = param.value

(***************************************************************************)
(* C22: every validator failure of POST /blocks is answered with HTTP 400  *)
(* and a body {error, code} whose code is the stable symbol of the failed  *)
(* check, and never with 500 / INTERNAL_SERVER_ERROR.                      *)
(***************************************************************************)
StartsWith(string, prefix) ==
    Len(string) >= Len(prefix) /\ SubSeq(string, 1, Len(prefix)) = prefix

StableCode(message) ==
    CASE StartsWith(message, "Invalid block height") -> "INVALID_HEIGHT"
      [] StartsWith(message, "Double-spend detected") -> "DOUBLE_SPEND"
      [] StartsWith(message, "Input references non-existent output") -> "NONEXISTENT_OUTPUT"
      [] StartsWith(message, "Input references already spent output") -> "ALREADY_SPENT"
      [] StartsWith(message, "Input/output sum mismatch") -> "SUM_MISMATCH"
      [] StartsWith(message, "Invalid block ID") -> "INVALID_BLOCK_ID"

C22_ErrorEnvelope ==
    (Rejected("submit") /\ response.error.name = "BlockValidationError") =>
        /\ response.reply.statusCode = 400
        /\ response.reply.body.error = response.error.message
        /\ response.reply.body.code = StableCode(response.error.message)
        /\ response.reply.body.code # "INTERNAL_SERVER_ERROR"

(***************************************************************************)
(* C23: the validator runs the height check, then the economic walk over   *)
(* the transactions in submission order (for each input the double-spend   *)
(* test, then the lookup; after the inputs the sum check), then the hash   *)
(* check, and reports only the first failure: a wrong height wins over     *)
(* everything, a failure of the walk wins over a wrong id, and inside the  *)
(* walk the first failing input or transaction is the one reported.        *)
(***************************************************************************)
InputFails(S, block, q) == Repeats(block, q) \/ ~ Spendable(S, InputAt(block, q))

FailingInputs(S, block, k) ==
    {q \in Positions(block) : q[1] = k /\ InputFails(S, block, q)}

TransactionFails(S, block, k) ==
    \/ FailingInputs(S, block, k) # {}
    \/ Unbalanced(S, block.transactions[k])

EconomicFailure(S, block) ==
    \E k \in 1..Len(block.transactions) : TransactionFails(S, block, k)

WrongId(block) ==
    block.id # calculateBlockId(block.height, TransactionIds(block.transactions))

FirstFailureReported(S, block) ==
    LET k == CHOOSE j \in 1..Len(block.transactions) :
                 /\ TransactionFails(S, block, j)
                 /\ \A l \in 1..(j - 1) : ~ TransactionFails(S, block, l)
        tx == block.transactions[k]
    IN
    IF FailingInputs(S, block, k) # {}
    THEN LET q == CHOOSE x \in FailingInputs(S, block, k) :
                      \A y \in FailingInputs(S, block, k) : x = y \/ Earlier(x, y)
             ref == InputAt(block, q)
         IN IF Repeats(block, q)
            THEN ReportedFor("Double-spend detected: output ", ref)
            ELSE \/ ReportedFor("Input references non-existent output: ", ref)
                 \/ ReportedFor("Input references already spent output: ", ref)
    ELSE RejectedWith("Input/output sum mismatch for transaction " \o tx.id \o ". ")

C23_CheckOrder ==
    LET block == request.block
        S == prior.store
    IN
    Handled("submit") =>
        /\ ~ AtExpectedHeight(S, block) => RejectedWith("Invalid block height")
        /\ (AtExpectedHeight(S, block) /\ EconomicFailure(S, block))
               => /\ FirstFailureReported(S, block)
                  /\ ~ StartsWith(response.error.message, "Invalid block ID")
        /\ (AtExpectedHeight(S, block) /\ ~ EconomicFailure(S, block) /\ WrongId(block))
               => RejectedWith("Invalid block ID")
        /\ (Rejected("submit") /\ StartsWith(response.error.message, "Invalid block ID"))
               => AtExpectedHeight(S, block) /\ ~ EconomicFailure(S, block)

C23_Witness ==
    LET block == request.block
        S == prior.store
    IN
    /\ RejectedWith("Input/output sum mismatch for transaction")
    /\ AtExpectedHeight(S, block)
    /\ WrongId(block)
    /\ S.outputs # {}
    /\ Store = S

(***************************************************************************)
(* C24: in every committed state every stored output value is >= 0 and     *)
(* every cached address balance is >= 0.                                   *)
(***************************************************************************)
C24_NonNegativity ==
    /\ \A o \in outputs : o.value >= 0
    /\ \A a \in DOMAIN address_balances : address_balances[a] >= 0

(***************************************************************************)
(* C25: output lifecycle.  In every step an output that appears is unspent *)
(* and comes from an accepted block; a flag changes FALSE -> TRUE only by  *)
(* an accepted block containing an input that references the output, and   *)
(* TRUE -> FALSE only by a rollback after which no input row references    *)
(* the output; no submit un-spends an output and no rollback marks one     *)
(* spent.                                                                  *)
(***************************************************************************)
SameOutput(o, p) ==
    o.transaction_id = p.transaction_id /\ o.output_index = p.output_index

ReferencedBy(rows, o) ==
    \E r \in DOMAIN rows :
        /\ r.spent_transaction_id = o.transaction_id
        /\ r.spent_output_index = o.output_index

LifecycleStep ==
    /\ \A n \in outputs' :
           (~ \E o \in outputs : SameOutput(o, n))
               => /\ ~ n.spent
                  /\ request.op = "submit"
                  /\ response'.status = "ok"
    /\ \A o \in outputs : \A n \in outputs' :
           SameOutput(o, n) =>
               /\ (~ o.spent /\ n.spent)
                      => /\ request.op = "submit"
                         /\ response'.status = "ok"
                         /\ \E q \in Positions(request.block) :
                                /\ InputAt(request.block, q).txId = o.transaction_id
                                /\ InputAt(request.block, q).index = o.output_index
                         /\ ReferencedBy(inputs', n)
               /\ (o.spent /\ ~ n.spent)
                      => /\ request.op = "rollback"
                         /\ response'.status = "ok"
                         /\ ReferencedBy(inputs, o)
                         /\ ~ ReferencedBy(inputs', n)
               /\ n.value = o.value /\ n.address = o.address

C25_OutputLifecycle == [][LifecycleStep]_vars

C25_Witness ==
    /\ Accepted("submit")
    /\ \E o \in prior.store.outputs : \E n \in outputs :
           SameOutput(o, n) /\ ~ o.spent /\ n.spent
    /\ \E o \in prior.store.outputs : o.spent /\ o \in outputs
    /\ \E n \in outputs : ~ \E o \in prior.store.outputs : SameOutput(o, n)

(***************************************************************************)
(* C26: a block with an empty transactions list is accepted exactly when   *)
(* its height is H + 1 and its id is the hash of the decimal height alone; *)
(* it adds one block and changes no transaction, output, input or balance. *)
(***************************************************************************)
C26_EmptyBlock ==
    LET block == request.block
        S == prior.store
    IN
    (Handled("submit") /\ block.transactions = << >>) =>
        /\ Accepted("submit")
               <=> (/\ AtExpectedHeight(S, block)
                    /\ block.id = Sha256Hex(NumberToString(block.height)))
        /\ Accepted("submit")
               => /\ blocks = S.blocks \cup {[id |-> block.id, height |-> block.height]}
                  /\ Cardinality(blocks) = Cardinality(S.blocks) + 1
                  /\ transactions = S.transactions
                  /\ outputs = S.outputs
                  /\ inputs = S.inputs
                  /\ address_balances = S.address_balances
        /\ Rejected("submit") => Store = S

C26_Witness ==
    /\ Accepted("submit")
    /\ request.block.transactions = << >>
    /\ request.block.height = 3
    /\ \E o \in outputs : o.spent
    /\ \E o \in outputs : ~ o.spent
    /\ Cardinality(blocks) = 3

(***************************************************************************)
(* C27: every submit and every rollback releases the connection it checked *)
(* out on every exit path (commit, validation failure, store error,        *)
(* failure of BEGIN or of the ROLLBACK statement itself): a connection is  *)
(* checked out only while the writer's transaction is open, and none is    *)
(* once the operation has answered.                                        *)
(***************************************************************************)
CheckedOut == IF "checkedOut" \in DOMAIN txn THEN txn.checkedOut ELSE 0

C27_NoConnectionLeak ==
    /\ CheckedOut = IF txn.active THEN 1 ELSE 0
    /\ (response # NoResponse \/ request = Idle) => CheckedOut = 0

C27_Witness ==
    /\ Rejected("submit")
    /\ "outcome" \in DOMAIN txn
    /\ txn.outcome = "ROLLBACK"
    /\ txn.rollbackStatement = "failed"
    /\ txn.store # Store
    /\ CheckedOut = 0

(***************************************************************************)
(* The reply object: sendResponse, sendSuccess, sendError, errorHandler    *)
(* and asyncHandler acting on reply.sent.  A handler is what it does to    *)
(* the reply: the bodies it sends, in order, and the error it then throws, *)
(* if any.                                                                 *)
(***************************************************************************)
NewReply == [sent |-> FALSE, written |-> << >>]

FastifyValidationError(message) ==
    [name |-> "FastifyError", message |-> message, validation |-> TRUE]

HasValidation(error) == "validation" \in DOMAIN error /\ error.validation

ReplySendResponse_Unguarded(reply, statusCode, data) ==
    [sent |-> TRUE, written |-> Append(reply.written, sendResponse(statusCode, data))]

ReplySendResponse(reply, statusCode, data) ==
    IF reply.sent THEN reply
    ELSE [sent |-> TRUE, written |-> Append(reply.written, sendResponse(statusCode, data))]

ReplySendSuccess(reply, data) == ReplySendResponse(reply, 200, data)

ReplySendError(reply, error) ==
    IF reply.sent THEN reply
    ELSE IF InstanceOfAppError(error)
    THEN ReplySendResponse(reply, error.statusCode,
                           [error |-> error.message, code |-> error.code])
    ELSE ReplySendResponse(reply, 500,
                           [error |-> "Internal server error",
                            code |-> "INTERNAL_SERVER_ERROR"])

ReplyErrorHandler(reply, error) ==
    IF InstanceOfAppError(error) THEN ReplySendError(reply, error)
    ELSE IF HasValidation(error)
    THEN ReplySendError(reply, ValidationError(error.message))
    ELSE ReplySendError(reply, error)

RECURSIVE ReplySendAll(_, _)
ReplySendAll(reply, sends) ==
    IF sends = << >> THEN reply
    ELSE ReplySendAll(ReplySendSuccess(reply, Head(sends)), Tail(sends))

HandlerData ==
    {[message |-> "Block processed successfully"],
     [message |-> "Rollback to height 1 completed successfully"],
     [balance |-> 2]}

HandlerErrors ==
    {ValidationError("Height query parameter is required"),
     ValidationError("Height must be a non-negative integer"),
     RollbackError("Target height must be non-negative"),
     BlockValidationError("Invalid block height. Expected 1, got 2", 400),
     DatabaseError("transactions_pkey"),
     FastifyValidationError("body must be object")}

HandlerSends == {<< >>} \cup {<<d>> : d \in HandlerData} \cup {<<d, e>> : d, e \in HandlerData}

Handlers ==
    {h \in [sends : HandlerSends, throws : {Null} \cup {Some(e) : e \in HandlerErrors}] :
         h.sends # << >> \/ h.throws # Null}

ReceiveHandled ==
    /\ request = Idle
    /\ \E h \in Handlers : request' = [op |-> "handler", handler |-> h]
    /\ response' = [status |-> "handler", reply |-> NewReply]
    /\ UNCHANGED <<blocks, transactions, outputs, inputs, address_balances, chain,
                   prior, txn, observed>>

RunHandler ==
    /\ request.op = "handler"
    /\ response.status = "handler"
    /\ response' =
           [status |-> IF request.handler.throws = Null THEN "returned" ELSE "catch",
            reply |-> ReplySendAll(response.reply, request.handler.sends)]
    /\ UNCHANGED <<blocks, transactions, outputs, inputs, address_balances, request,
                   chain, prior, txn, observed>>

CatchHandlerError ==
    /\ request.op = "handler"
    /\ response.status = "catch"
    /\ response' =
           [status |-> "returned",
            reply |-> ReplyErrorHandler(response.reply, request.handler.throws.value)]
    /\ UNCHANGED <<blocks, transactions, outputs, inputs, address_balances, request,
                   chain, prior, txn, observed>>

HandlerReturned ==
    /\ request.op = "handler"
    /\ response.status = "returned"
    /\ request' = Idle
    /\ response' = NoResponse
    /\ UNCHANGED <<blocks, transactions, outputs, inputs, address_balances, chain,
                   prior, txn, observed>>

NextReply == ReceiveHandled \/ RunHandler \/ CatchHandlerError \/ HandlerReturned

SpecReply == Init /\ [][NextReply]_vars

(***************************************************************************)
(* C28: for every request, whatever the handler outcome (success,          *)
(* application error, unknown error, error thrown after a reply was        *)
(* already sent), exactly one response is written: the first one; once     *)
(* reply.sent is true no further write is made.                            *)
(***************************************************************************)
C28_SingleResponse ==
    request.op = "handler" =>
        LET reply == response.reply
            handler == request.handler
        IN
        /\ Len(reply.written) <= 1
        /\ reply.sent <=> Len(reply.written) = 1
        /\ response.status = "returned" =>
               /\ Len(reply.written) = 1
               /\ handler.sends # << >> => reply.written[1] = sendSuccess(handler.sends[1])
               /\ handler.sends = << >> =>
                      /\ reply.written[1].statusCode \in {400, 500}
                      /\ reply.written[1].statusCode = 400
                             <=> (\/ InstanceOfAppError(handler.throws.value)
                                  \/ HasValidation(handler.throws.value))

C28_Witness ==
    /\ request.op = "handler"
    /\ response.status = "returned"
    /\ request.handler.sends # << >>
    /\ request.handler.throws # Null
    /\ response.reply.written = <<sendSuccess(request.handler.sends[1])>>

(***************************************************************************)
(* A client that remembers a block the validator rejected, together with   *)
(* the error and the chain of accepted blocks at that moment, and submits  *)
(* the identical block again later.                                        *)
(***************************************************************************)
RetryLists ==
    {<< >>,
     <<WriterTransaction("t1", << >>, <<Out("a1", 2), Out("a2", 1)>>)>>,
     <<WriterTransaction("t2", <<Ref("t1", 0)>>, <<Out("a1", 1), Out("a2", 1)>>)>>,
     <<WriterTransaction("t3", <<Ref("t2", 0)>>, <<Out("a2", 1)>>)>>,
     <<WriterTransaction("t3", <<Ref("t1", 0), Ref("t1", 0)>>, <<Out("a2", 4)>>)>>}

RetryBlocks ==
    UNION {{Block(calculateBlockId(h, TransactionIds(txs)), h, txs) : txs \in RetryLists}
               \cup {Block("wrong_hash_value", h, << >>)} : h \in 1..MaxHeight}

RetryRequests ==
    {[op |-> "submit", block |-> b] : b \in RetryBlocks}
        \cup {[op |-> "rollback", height |-> h] : h \in 0..(MaxHeight - 1)}

ReceiveRetry ==
    /\ request = Idle
    /\ \E r \in RetryRequests : request' = r
    /\ response' = NoResponse
    /\ UNCHANGED <<blocks, transactions, outputs, inputs, address_balances, chain,
                   prior, txn, observed>>

Rejection(block, error, history) == [block |-> block, error |-> error, chain |-> history]

ReplyObserved ==
    /\ response # NoResponse
    /\ request' = Idle
    /\ response' = NoResponse
    /\ prior' = [store |-> Store, chain |-> chain]
    /\ txn' = NoTransaction
    /\ \/ observed' = observed
       \/ /\ Rejected("submit")
          /\ response.error.name = "BlockValidationError"
          /\ observed' = Rejection(request.block, response.error, chain)
    /\ UNCHANGED <<blocks, transactions, outputs, inputs, address_balances, chain>>

NextRetry == ReceiveRetry \/ SubmitBlock \/ Rollback \/ ReplyObserved

SpecRetry == Init /\ [][NextRetry]_vars

Resubmitted ==
    /\ Handled("submit")
    /\ observed # NoObservation
    /\ request.block = observed.block

(***************************************************************************)
(* C29 as stated: a block rejected by the validator is rejected again with *)
(* the same error on every later resubmission of the identical block,      *)
(* whatever submits and rollbacks were committed in between.               *)
(***************************************************************************)
C29_ValidationErrorsPermanent ==
    Resubmitted => (Rejected("submit") /\ response.error = observed.error)

(***************************************************************************)
(* C29 as the code has it: the error of the validator is a function of the *)
(* block and of the chain of accepted blocks.  A rejected block is         *)
(* rejected again with the same error whenever it is resubmitted on the    *)
(* chain it was rejected on, whatever submits and rollbacks were committed *)
(* in between; a block rejected for its id or for a double spend is never  *)
(* accepted on any chain.                                                  *)
(***************************************************************************)
C29_RejectionRepeatsOnSameChain ==
    Resubmitted =>
        /\ prior.chain = observed.chain
               => (Rejected("submit") /\ response.error = observed.error)
        /\ (\/ StartsWith(observed.error.message, "Invalid block ID")
            \/ StartsWith(observed.error.message, "Double-spend detected"))
               => Rejected("submit")

C29_Witness ==
    /\ Resubmitted
    /\ prior.chain = observed.chain
    /\ Len(prior.chain) = 2
    /\ \E o \in outputs : o.spent
    /\ StartsWith(observed.error.message, "Input references already spent output")
    /\ Rejected("submit")
    /\ response.error = observed.error

(***************************************************************************)
(* C30: after a mutating rollbackToHeight(j) the surviving outputs are the *)
(* outputs of the blocks up to j; exactly those of them that were spent    *)
(* only by inputs of deleted blocks are unspent again, every surviving     *)
(* output still referenced by an input of a block with height <= j keeps   *)
(* spent = TRUE, and every output that was unspent before stays unspent.   *)
(***************************************************************************)
BlockHeightOf(S, transactionId) ==
    LET t == CHOOSE x \in S.transactions : x.id = transactionId
        b == CHOOSE x \in S.blocks : x.id = t.block_id
    IN b.height

SpentAtOrBelow(S, o, j) ==
    \E r \in DOMAIN S.inputs :
        /\ r.spent_transaction_id = o.transaction_id
        /\ r.spent_output_index = o.output_index
        /\ BlockHeightOf(S, r.transaction_id) <= j

MutatingRollback ==
    /\ Accepted("rollback")
    /\ request.height >= 0
    /\ request.height < HeightOf(prior.store)

C30_RollbackUnspendStep ==
    MutatingRollback =>
        LET S == prior.store
            j == request.height
            surviving == {o \in S.outputs : BlockHeightOf(S, o.transaction_id) <= j}
        IN
        /\ \A o \in surviving : \E n \in outputs : SameOutput(o, n)
        /\ \A n \in outputs : \E o \in surviving : SameOutput(o, n)
        /\ \A o \in surviving : \A n \in outputs :
               SameOutput(o, n) =>
                   /\ n.spent <=> (o.spent /\ SpentAtOrBelow(S, o, j))
                   /\ ~ o.spent => ~ n.spent
                   /\ (o.spent /\ ~ SpentAtOrBelow(S, o, j)) => ~ n.spent

C30_Witness ==
    /\ MutatingRollback
    /\ request.height = 2
    /\ \E o \in prior.store.outputs : \E n \in outputs :
           SameOutput(o, n) /\ o.spent /\ ~ n.spent
    /\ \E o \in prior.store.outputs : \E n \in outputs :
           SameOutput(o, n) /\ o.spent /\ n.spent
    /\ \E o \in prior.store.outputs : \E n \in outputs :
           SameOutput(o, n) /\ ~ o.spent /\ ~ n.spent

(***************************************************************************)
(* A ledger driven by a single writer: blocks at the next height, built    *)
(* from a universe of transaction lists that spend, re-mint, reuse ids and *)
(* spend inside the creating block, and rollbacks to every height.         *)
(***************************************************************************)
LedgerLists ==
    {<< >>,
     <<WriterTransaction("t1", << >>, <<Out("a1", 2), Out("a2", 1)>>)>>,
     <<WriterTransaction("t1", << >>, <<Out("a1", 2)>>)>>,
     <<WriterTransaction("t2", <<Ref("t1", 0)>>, <<Out("a1", 1), Out("a2", 1)>>)>>,
     <<WriterTransaction("t2", <<Ref("t1", 0)>>, <<Out("a2", 2)>>)>>,
     <<WriterTransaction("t2", <<Ref("t1", 0)>>, <<Out("a2", 2)>>),
       WriterTransaction("t3", <<Ref("t1", 1)>>, <<Out("a1", 1)>>)>>,
     <<WriterTransaction("t3", <<Ref("t2", 0)>>, <<Out("a2", 1)>>)>>,
     <<WriterTransaction("t3", <<Ref("t2", 0)>>, <<Out("a1", 2)>>)>>,
     <<WriterTransaction("t3", <<Ref("t1", 1), Ref("t2", 0)>>, <<Out("a1", 3)>>)>>,
     <<WriterTransaction("t2", << >>, <<Out("a2", 1)>>),
       WriterTransaction("t2", << >>, <<Out("a1", 2)>>)>>,
     <<WriterTransaction("t2", << >>, <<Out("a1", 2)>>),
       WriterTransaction("t3", <<Ref("t2", 0)>>, <<Out("a2", 2)>>)>>,
     <<WriterTransaction("t2", <<Ref("t1", 0)>>, <<Out("a2", 2)>>),
       WriterTransaction("t3", <<Ref("t1", 0)>>, <<Out("a1", 2)>>)>>,
     <<WriterTransaction("t3", << >>, <<Out("a1", 2)>>),
       WriterTransaction("t2", <<Ref("t3", 0)>>, <<Out("a2", 2)>>)>>}

LedgerBlocks(height) ==
    {Block(calculateBlockId(height, TransactionIds(txs)), height, txs) :
         txs \in LedgerLists}

LedgerRequests ==
    {[op |-> "submit", block |-> b] :
         b \in (IF Len(chain) < MaxHeight THEN LedgerBlocks(Len(chain) + 1) ELSE {})}
        \cup {[op |-> "rollback", height |-> h] : h \in 0..MaxHeight}

ReceiveLedger ==
    /\ request = Idle
    /\ \E r \in LedgerRequests : request' = r
    /\ response' = NoResponse
    /\ UNCHANGED <<blocks, transactions, outputs, inputs, address_balances, chain,
                   prior, txn, observed>>

NextLedger == ReceiveLedger \/ SubmitBlock \/ Rollback \/ Reply

SpecLedger == Init /\ [][NextLedger]_vars

(***************************************************************************)
(* C31: after a mutating rollbackToHeight(j) the balance relation has a    *)
(* row for an address if and only if the address owns at least one unspent *)
(* surviving output, and the row holds the sum of those outputs; rows of   *)
(* addresses whose outputs were all deleted or are all spent are gone.     *)
(***************************************************************************)
UnspentOf(S, a) == {o \in S.outputs : o.address = a /\ ~ o.spent}

C31_RollbackBalanceRebuild ==
    MutatingRollback =>
        /\ DOMAIN address_balances = {o.address : o \in {x \in outputs : ~ x.spent}}
        /\ \A a \in DOMAIN address_balances :
               address_balances[a] = SumValues(UnspentOf(Store, a))

C31_Witness ==
    /\ MutatingRollback
    /\ \E a \in DOMAIN prior.store.address_balances :
           /\ a \notin DOMAIN address_balances
           /\ \E o \in outputs : o.address = a /\ o.spent
           /\ prior.store.address_balances[a] > 0
    /\ \E a \in DOMAIN address_balances : address_balances[a] > 0

(***************************************************************************)
(* C32: a mutating rollbackToHeight(j) deletes exactly the blocks with     *)
(* height > j together with their transactions, the outputs those          *)
(* transactions created and the inputs they held; every block with height  *)
(* <= j, its transactions, its inputs, and the address and value of its    *)
(* outputs are unchanged.                                                  *)
(***************************************************************************)
Unflagged(o) ==
    [transaction_id |-> o.transaction_id, output_index |-> o.output_index,
     address |-> o.address, value |-> o.value]

C32_RollbackFrame ==
    MutatingRollback =>
        LET S == prior.store
            j == request.height
            kept(transactionId) == BlockHeightOf(S, transactionId) <= j
            keptRows == {r \in DOMAIN S.inputs : kept(r.transaction_id)}
        IN
        /\ blocks = {b \in S.blocks : b.height <= j}
        /\ transactions = {t \in S.transactions : kept(t.id)}
        /\ {Unflagged(o) : o \in outputs}
               = {Unflagged(o) : o \in {x \in S.outputs : kept(x.transaction_id)}}
        /\ Cardinality(outputs)
               = Cardinality({x \in S.outputs : kept(x.transaction_id)})
        /\ DOMAIN inputs = keptRows
        /\ \A r \in keptRows : inputs[r] = S.inputs[r]

C32_Witness ==
    /\ MutatingRollback
    /\ request.height = 2
    /\ DOMAIN inputs # {}
    /\ DOMAIN inputs # DOMAIN prior.store.inputs
    /\ Cardinality(outputs) < Cardinality(prior.store.outputs)
    /\ Cardinality(transactions) = 2
    /\ Cardinality(prior.store.transactions) = 3

(***************************************************************************)
(* C33: committing an accepted block adds exactly one block row, one       *)
(* transaction row per transaction, one input row per input and one        *)
(* unspent output row per output at its list index; marks spent exactly    *)
(* the outputs referenced by its inputs; lowers the balance of each        *)
(* referenced output's address by its value and raises the balance of each *)
(* new output's address by its value; nothing else changes.                *)
(***************************************************************************)
NewInputRows(block) ==
    {[transaction_id |-> block.transactions[q[1]].id,
      spent_transaction_id |-> InputAt(block, q).txId,
      spent_output_index |-> InputAt(block, q).index] : q \in Positions(block)}

NewOutputRows(block) ==
    UNION {{[transaction_id |-> block.transactions[k].id, output_index |-> i - 1,
             address |-> block.transactions[k].outputs[i].address,
             value |-> block.transactions[k].outputs[i].value, spent |-> FALSE] :
                i \in 1..Len(block.transactions[k].outputs)} :
               k \in 1..Len(block.transactions)}

ReferencedIn(block, o) ==
    \E q \in Positions(block) :
        /\ InputAt(block, q).txId = o.transaction_id
        /\ InputAt(block, q).index = o.output_index

C33_ApplyEffect ==
    Accepted("submit") =>
        LET S == prior.store
            block == request.block
            consumed == {o \in S.outputs : ReferencedIn(block, o)}
            created == NewOutputRows(block)
        IN
        /\ blocks = S.blocks \cup {[id |-> block.id, height |-> block.height]}
        /\ Cardinality(blocks) = Cardinality(S.blocks) + 1
        /\ transactions = S.transactions
               \cup {[id |-> block.transactions[k].id, block_id |-> block.id] :
                         k \in 1..Len(block.transactions)}
        /\ Cardinality(transactions)
               = Cardinality(S.transactions) + Len(block.transactions)
        /\ inputs = S.inputs (+) SetToBag(NewInputRows(block))
        /\ BagCardinality(inputs)
               = BagCardinality(S.inputs) + Cardinality(Positions(block))
        /\ outputs = {IF o \in consumed THEN [o EXCEPT !.spent = TRUE] ELSE o :
                          o \in S.outputs} \cup created
        /\ Cardinality(outputs) = Cardinality(S.outputs) + Cardinality(created)
        /\ \A o \in consumed : ~ o.spent
        /\ \A a \in Addresses :
               getCachedBalance(Store, a)
                   = getCachedBalance(S, a)
                         - SumValues({o \in consumed : o.address = a})
                         + SumValues({o \in created : o.address = a})
        /\ DOMAIN address_balances
               = DOMAIN S.address_balances
                     \cup {o.address : o \in consumed \cup created}

C33_Witness ==
    /\ Accepted("submit")
    /\ Len(request.block.transactions) = 2
    /\ Cardinality(Positions(request.block)) = 2
    /\ Cardinality(outputs) = 4
    /\ Cardinality({o \in outputs : o.spent}) = 2
    /\ \E a \in Addresses : getCachedBalance(Store, a) < getCachedBalance(prior.store, a)

(***************************************************************************)
(* C34: whenever updateAddressBalance inserts a new row because the        *)
(* address has no row, the delta is non-negative: a decrement for a spent  *)
(* output always finds an existing row of the owning address, and the      *)
(* first delta of an address without a row is the value of the first       *)
(* output the block creates for it.                                        *)
(***************************************************************************)
OutputPositions(block) ==
    UNION {{<<k, i>> : i \in 1..Len(block.transactions[k].outputs)} :
               k \in 1..Len(block.transactions)}

OutputAt(block, p) == block.transactions[p[1]].outputs[p[2]]

FirstReceive(block, a) ==
    CHOOSE p \in OutputPositions(block) :
        /\ OutputAt(block, p).address = a
        /\ \A q \in OutputPositions(block) :
               OutputAt(block, q).address = a => (q = p \/ Earlier(p, q))

DecrementsFindRow ==
    Accepted("submit") =>
        \A o \in prior.store.outputs :
            ReferencedIn(request.block, o) => o.address \in DOMAIN prior.store.address_balances

C34_UpsertOnFirstTouch ==
    Accepted("submit") =>
        /\ DecrementsFindRow
        /\ \A a \in DOMAIN address_balances \ DOMAIN prior.store.address_balances :
               /\ \E p \in OutputPositions(request.block) :
                      OutputAt(request.block, p).address = a
               /\ OutputAt(request.block, FirstReceive(request.block, a)).value >= 0

(***************************************************************************)
(* C35: under single-writer execution every block that passes the height,  *)
(* economic and hash checks of the validator is committed by the applier:  *)
(* the submit succeeds and the height becomes H + 1, so no block the        *)
(* validator accepted is refused by a uniqueness constraint on the block   *)
(* id or on a transaction id.                                              *)
(***************************************************************************)
ValidatorAccepted ==
    Handled("submit") /\ ~ validateBlock(prior.store, request.block).thrown

Committed ==
    /\ Accepted("submit")
    /\ HeightOf(Store) = HeightOf(prior.store) + 1
    /\ \E b \in blocks : b.id = request.block.id /\ b.height = request.block.height

DistinctTransactionIds(block) ==
    \A k, l \in 1..Len(block.transactions) :
        block.transactions[k].id = block.transactions[l].id => k = l

FreshIds(S, block) ==
    /\ DistinctTransactionIds(block)
    /\ \A k \in 1..Len(block.transactions) :
           ~ \E t \in S.transactions : t.id = block.transactions[k].id
    /\ ~ \E b \in S.blocks : b.id = block.id

OwnedInputs(S, block) ==
    \A p \in Positions(block) :
        \A o \in StoredOutputs(S, InputAt(block, p)) : o.address # ""

ReusedTransactionId(S, block) ==
    \/ ~ DistinctTransactionIds(block)
    \/ \E k \in 1..Len(block.transactions) :
           \E t \in S.transactions : t.id = block.transactions[k].id

C36_ReusedTransactionId ==
    (ValidatorAccepted /\ ReusedTransactionId(prior.store, request.block)) =>
        /\ Rejected("submit")
        /\ response.error.name # "BlockValidationError"
        /\ response.reply.statusCode = 500
        /\ response.reply.body.code = "INTERNAL_SERVER_ERROR"
        /\ Store = prior.store
        /\ ~ \E b \in blocks : b.id = request.block.id
        /\ chain = prior.chain

C36_Witness ==
    /\ ValidatorAccepted
    /\ ~ DistinctTransactionIds(request.block)
    /\ \E t \in prior.store.transactions : t.id = request.block.transactions[1].id
    /\ response.reply.statusCode = 500
    /\ Store = prior.store

(***************************************************************************)
(* C37: an input that references an output created by an earlier           *)
(* transaction of the same submitted block is rejected as a non-existent   *)
(* output, because the lookups read only the committed store; hence every  *)
(* stored input references an output created in a block of strictly lower  *)
(* height than the block of the spending transaction.                      *)
(***************************************************************************)
SpendsOwnOutput(S, block, p) ==
    LET ref == InputAt(block, p) IN
    /\ StoredOutputs(S, ref) = {}
    /\ \E k \in 1..(p[1] - 1) :
           /\ block.transactions[k].id = ref.txId
           /\ ref.index < Len(block.transactions[k].outputs)

FirstFailure(S, block, p) ==
    /\ \A k \in 1..(p[1] - 1) : ~ TransactionFails(S, block, k)
    /\ \A q \in FailingInputs(S, block, p[1]) : q = p \/ Earlier(p, q)

C37_NoSpendingInsideCreatingBlock ==
    /\ Handled("submit") =>
           \A p \in Positions(request.block) :
               SpendsOwnOutput(prior.store, request.block, p) =>
                   /\ Rejected("submit")
                   /\ Store = prior.store
                   /\ (/\ AtExpectedHeight(prior.store, request.block)
                       /\ ~ Repeats(request.block, p)
                       /\ FirstFailure(prior.store, request.block, p))
                          => ReportedFor("Input references non-existent output: ",
                                         InputAt(request.block, p))
    /\ \A r \in DOMAIN inputs :
           /\ \E t \in transactions : t.id = r.spent_transaction_id
           /\ BlockHeightOf(Store, r.spent_transaction_id)
                  < BlockHeightOf(Store, r.transaction_id)

C37_Witness ==
    /\ Rejected("submit")
    /\ \E p \in Positions(request.block) :
           /\ SpendsOwnOutput(prior.store, request.block, p)
           /\ ReportedFor("Input references non-existent output: ",
                          InputAt(request.block, p))
    /\ DOMAIN inputs # {}
    /\ Store = prior.store

(***************************************************************************)
(* C38: for an accepted history B1..Bk and j < k, rollbackToHeight(j)      *)
(* followed by resubmitting B(j+1)..Bk in order accepts every one of them  *)
(* and yields the same blocks, transactions, outputs with their spent      *)
(* flags, inputs and per-address balances (an absent row read as 0) as     *)
(* before the rollback.                                                    *)
(***************************************************************************)
RECURSIVE AllAccepted(_, _)
AllAccepted(S, history) ==
    \/ history = << >>
    \/ LET result == processBlock(S, Head(history)) IN
       ~ result.thrown /\ AllAccepted(result.store, Tail(history))

Undone == SubSeq(prior.chain, request.height + 1, Len(prior.chain))

C38_ReapplyAfterRollback ==
    MutatingRollback =>
        LET before == prior.store
            after == Replay(Store, Undone)
        IN
        /\ AllAccepted(Store, Undone)
        /\ after.blocks = before.blocks
        /\ after.transactions = before.transactions
        /\ after.outputs = before.outputs
        /\ after.inputs = before.inputs
        /\ \A a \in Addresses \cup DOMAIN before.address_balances
                     \cup DOMAIN after.address_balances :
               getCachedBalance(after, a) = getCachedBalance(before, a)

C38_Witness ==
    /\ MutatingRollback
    /\ Len(Undone) = 2
    /\ \E r \in DOMAIN prior.store.inputs : r \notin DOMAIN inputs
    /\ \E o \in prior.store.outputs :
           o.spent /\ \E n \in outputs : SameOutput(o, n) /\ ~ n.spent
    /\ Replay(Store, Undone).outputs = prior.store.outputs

(***************************************************************************)
(* Submits interleaved with other writers.  processBlock awaits            *)
(* validateBlock on the pool and only then checks a client out and opens   *)
(* its write transaction, so between the two another handler can commit.   *)
(* A submit that passed the validator waits in txn.submits with the store  *)
(* it was validated against; its write transaction runs later, against the *)
(* store committed by then.  A record remembers whether a rollback deleted *)
(* blocks while it was kept.                                               *)
(***************************************************************************)
MaxInFlight == 2

InterleavedLists ==
    {<<WriterTransaction("t1", << >>, <<Out("a1", 2), Out("a2", 1)>>)>>,
     <<WriterTransaction("t2", <<Ref("t1", 0)>>, <<Out("a2", 2)>>)>>,
     <<WriterTransaction("t3", <<Ref("t1", 0)>>, <<Out("a1", 2)>>)>>,
     <<WriterTransaction("t3", << >>, <<Out("a2", 1)>>)>>}

InFlight == IF "submits" \in DOMAIN txn THEN txn.submits ELSE << >>

Waiting == {i \in 1..Len(InFlight) : InFlight[i].status = "validated"}

InterleavedRequests ==
    {[op |-> "submit",
      block |-> Block(calculateBlockId(HeightOf(Store) + 1, TransactionIds(txs)),
                      HeightOf(Store) + 1, txs)] :
         txs \in (IF HeightOf(Store) < MaxHeight /\ Len(InFlight) < MaxInFlight
                  THEN InterleavedLists ELSE {})}
        \cup {[op |-> "rollback", height |-> h] : h \in 0..(MaxHeight - 1)}

ReceiveInterleaved ==
    /\ request = Idle
    /\ \E r \in InterleavedRequests : request' = r
    /\ response' = NoResponse
    /\ UNCHANGED <<blocks, transactions, outputs, inputs, address_balances, chain,
                   prior, txn, observed>>

ValidateSubmit ==
    /\ request.op = "submit"
    /\ response = NoResponse
    /\ LET validated == validateBlock(Store, request.block) IN
       IF validated.thrown
       THEN /\ response' = Outcome(validated, << >>)
            /\ UNCHANGED <<request, txn>>
       ELSE /\ txn' = [active |-> FALSE,
                       submits |-> Append(InFlight,
                                          [block |-> request.block, seen |-> Store,
                                           undone |-> FALSE, status |-> "validated"])]
            /\ request' = Idle
            /\ UNCHANGED response
    /\ UNCHANGED <<blocks, transactions, outputs, inputs, address_balances, chain,
                   prior, observed>>

ApplyValidated(S, block) ==
    LET applied == ApplyBlock(S, block) IN
    IF applied.thrown THEN [thrown |-> TRUE, error |-> applied.error, store |-> S]
    ELSE Done(applied.store)

ApplySubmit ==
    /\ request = Idle
    /\ \E i \in Waiting :
           LET block == InFlight[i].block
               result == ApplyValidated(Store, block)
           IN
           /\ Commit(result.store)
           /\ request' = [op |-> "submit", block |-> block]
           /\ response' = Outcome(result, [message |-> "Block processed successfully"])
           /\ chain' = IF result.thrown THEN chain ELSE Append(chain, block)
           /\ txn' = [active |-> FALSE,
                      submits |-> [InFlight EXCEPT ![i].status =
                                       IF result.thrown THEN "aborted" ELSE "committed"]]
    /\ UNCHANGED <<prior, observed>>

RollbackInterleaved ==
    /\ request.op = "rollback"
    /\ response = NoResponse
    /\ LET targetHeight == validateNonNegativeInteger(request.height, "Height")
           result == IF targetHeight.thrown
                     THEN [thrown |-> TRUE, error |-> targetHeight.error, store |-> Store]
                     ELSE rollbackToHeight(Store, targetHeight.value)
       IN
       /\ Commit(result.store)
       /\ response' =
              Outcome(result,
                      [message |-> "Rollback to height " \o NumberToString(request.height)
                                   \o " completed successfully"])
       /\ chain' = IF result.thrown THEN chain
                   ELSE SelectSeq(chain, LAMBDA b : b.height <= request.height)
       /\ txn' = IF result.store.blocks = blocks THEN txn
                 ELSE [active |-> FALSE,
                       submits |-> [i \in 1..Len(InFlight) |->
                                        [InFlight[i] EXCEPT !.undone = TRUE]]]
    /\ UNCHANGED <<request, prior, observed>>

ReplyInterleaved ==
    /\ response # NoResponse
    /\ request' = Idle
    /\ response' = NoResponse
    /\ prior' = [store |-> Store, chain |-> chain]
    /\ txn' = IF Waiting = {} THEN NoTransaction ELSE txn
    /\ UNCHANGED <<blocks, transactions, outputs, inputs, address_balances, chain,
                   observed>>

NextInterleaved ==
    \/ ReceiveInterleaved
    \/ ValidateSubmit
    \/ ApplySubmit
    \/ RollbackInterleaved
    \/ ReplyInterleaved

SpecInterleaved == Init /\ [][NextInterleaved]_vars

GapFree(S) == {b.height : b \in S.blocks} = 1..Cardinality(S.blocks)

InputsReferenceOutputs(S) ==
    \A r \in DOMAIN S.inputs :
        \E o \in S.outputs : /\ o.transaction_id = r.spent_transaction_id
                              /\ o.output_index = r.spent_output_index

AppliedAfterRollback ==
    /\ Handled("submit")
    /\ \E i \in 1..Len(InFlight) :
           /\ InFlight[i].block = request.block
           /\ InFlight[i].status # "validated"
           /\ InFlight[i].undone

(***************************************************************************)
(* C39: when a rollback commits between the validation of a submit and     *)
(* its apply, the submit still does not commit a block whose height        *)
(* differs from the current maximum height + 1, nor an input whose         *)
(* referenced output no longer exists: the heights stay gap-free and every *)
(* input references an existing output.                                    *)
(***************************************************************************)
C39_SubmitInterleavedWithRollback ==
    /\ (AppliedAfterRollback /\ Accepted("submit"))
           => request.block.height = HeightOf(prior.store) + 1
    /\ GapFree(Store)
    /\ InputsReferenceOutputs(Store)

(***************************************************************************)
(* C40: when two submits are validated against the same committed state    *)
(* and then applied concurrently, at most one of them commits; the other   *)
(* aborts with its write transaction rolled back, so no two blocks share a *)
(* height and no output is referenced by inputs of two different blocks.   *)
(***************************************************************************)
Concurrent(i, j) ==
    /\ i # j
    /\ InFlight[i].seen = InFlight[j].seen
    /\ ~ InFlight[i].undone
    /\ ~ InFlight[j].undone

C40_ConcurrentSubmits ==
    /\ \A i, j \in 1..Len(InFlight) :
           Concurrent(i, j) =>
               /\ ~ (InFlight[i].status = "committed" /\ InFlight[j].status = "committed")
               /\ (InFlight[i].status = "committed" /\ InFlight[j].status # "validated")
                      => InFlight[j].status = "aborted"
    /\ (Rejected("submit") /\ request.block \in {InFlight[i].block : i \in 1..Len(InFlight)})
           => Store = prior.store
    /\ \A b, c \in blocks : b.height = c.height => b = c
    /\ \A o \in outputs : \A r, q \in Referencing(Store, o) :
           (CHOOSE t \in transactions : t.id = r.transaction_id).block_id
               = (CHOOSE t \in transactions : t.id = q.transaction_id).block_id

C40_Witness ==
    /\ Len(InFlight) = 2
    /\ Concurrent(1, 2)
    /\ InFlight[1].block # InFlight[2].block
    /\ \E i, j \in 1..2 : /\ InFlight[i].status = "committed"
                           /\ InFlight[j].status = "aborted"
    /\ Rejected("submit")
    /\ response.reply.statusCode = 500
    /\ Positions(InFlight[1].block) # {}
    /\ Positions(InFlight[2].block) # {}
    /\ InFlight[1].block.transactions[1].inputs = InFlight[2].block.transactions[1].inputs
    /\ Store = prior.store

====
